---------------------------- MODULE Spec2Model ----------------------------
(***************************************************************************)
(* Model of the MoodSense emotion fusion engine (src/src/emotion_detector  *)
(* .py) as driven by the data sync loop of src/main.py, of the data        *)
(* integrator (src/src/data_integrator.py), of the frame queue of the      *)
(* video analyzer and of the input monitor (src/src/input_monitor.py).     *)
(*                                                                         *)
(* Fixed point: every quantity that the code holds as a float in [0,1] or  *)
(* [-1,1] (volume, motion, typing errors, focus, confidence, valence,      *)
(* arousal) is an integer number of thousandths; pitch is in Hz, typing    *)
(* speed in characters per minute, face scores in percent.  The inputs are *)
(* drawn from grids (multiples of 0.01) on which every product the code    *)
(* forms is a whole number of thousandths, so no rounding is modelled.     *)
(* Means and shares are exact fractions.                                   *)
(***************************************************************************)
EXTENDS Integers, Sequences, FiniteSets, TLC

VARIABLES
    backend,            \* which face analysis the build has (HAS_DEEPFACE, HAS_FACE_RECOGNITION)
    emotion_history,    \* deque(maxlen=emotion_memory) of labels
    valence_history,    \* deque(maxlen=emotion_memory) of valence samples
    arousal_history,    \* deque(maxlen=emotion_memory) of arousal samples
    face_emotion,       \* last raw label per source
    voice_emotion,
    behavior_emotion,
    last,               \* the call the sync thread completed last: op, arg, obs, ret
    w_pc, w_obs,        \* sync thread inside _integrate_emotions (interleaved runs)
    r_pc, r_loc,        \* analysis thread inside get_analysis_results (interleaved runs)
    appended,           \* number of append calls done so far on each deque
    running,            \* DataIntegrator.running
    video_data, audio_data, environment_data, emotion_data, input_data,
                        \* the latest snapshot of each modality
    integrated_data,    \* the snapshot of the last merge
    productivity_score, wellbeing_score, mood_score, environment_score,
    data_history,       \* the rows of the DataFrame
    result_queue,       \* Queue(maxsize) of published results
    saved,              \* _save_data: the rows of the file written last, the
                        \* calls so far, and whether the last call failed
    integration_thread, \* index in loops of self.integration_thread, 0 while unset
    loops,              \* the threads running _integration_loop, in order of creation
    callers,            \* position of each thread that calls start() and stop()
    calls,              \* calls begun so far where they are bounded: start, stop, the setters
    clock,              \* rows appended so far (the time stamps of the rows)
    frame_queue,        \* VideoAnalyzer.frame_queue, a Queue(maxsize) of frames
    last_frame,         \* the frame VideoAnalyzer._analysis_loop took last
    capture_pc,         \* position of the thread of VideoAnalyzer._capture_loop
    frames_read,        \* frames read from the camera so far; a frame is its number
    input_monitor       \* the fields of the InputMonitor, and now, the time.time() it reads

modalities == <<video_data, audio_data, environment_data, emotion_data, input_data>>

scores == <<productivity_score, wellbeing_score, mood_score, environment_score>>

threads == <<integration_thread, loops, callers>>

integrator == <<running, modalities, integrated_data, scores, data_history,
                result_queue, saved, threads, calls, clock>>

capture == <<frame_queue, last_frame, capture_pc, frames_read>>

vars == <<backend, emotion_history, valence_history, arousal_history,
          face_emotion, voice_emotion, behavior_emotion, last,
          w_pc, w_obs, r_pc, r_loc, appended, integrator, capture, input_monitor>>

detector == <<emotion_history, valence_history, arousal_history,
              face_emotion, voice_emotion, behavior_emotion>>

conc == <<w_pc, w_obs, r_pc, r_loc, appended>>

(***************************************************************************)
(* Bounds of the model.                                                    *)
(***************************************************************************)
\* capacity of the three rolling deques (the constructor's emotion_memory)
emotion_memory == 3

\* folds the sync thread starts in an interleaved run
MaxFolds == 3

\* rows the DataFrame keeps (the constructor's history_length)
history_length == 1

\* results the queue holds (Queue(maxsize))
queue_maxsize == 1

\* rows appended before the integration loops stop entering a new tick
MaxTicks == 4

\* save_interval (300 s), counted in sleeps of update_interval
save_interval == 1

\* frames VideoAnalyzer.frame_queue holds (Queue(maxsize))
frame_maxsize == 2

\* frames the capture loop reads in one run
MaxFrames == 8

\* keystrokes recorded by the input monitor
MaxKeys == 2

\* how far the time read by the input monitor advances, in units of 30 s
MaxTime == 4

\* calls of the five setters in one run
MaxUpdates == 2

\* calls of start() and stop() in one run
MaxCalls == 3

(***************************************************************************)
(* Constants of the program.                                               *)
(***************************************************************************)
\* DataIntegrator.update_interval and the sleep of its exception handler, in ms
update_interval == 1000
error_sleep == 100

\* InputMonitor typing_window, 60 seconds, in units of 30 s
typing_window == 2

emotion_categories ==
    <<"angry", "disgust", "fear", "happy", "sad", "surprise", "neutral">>

Labels == {emotion_categories[i] : i \in 1..Len(emotion_categories)}

emotion_mappings ==
    [angry    |-> [valence |-> -800, arousal |-> 800],
     disgust  |-> [valence |-> -600, arousal |-> 400],
     fear     |-> [valence |-> -700, arousal |-> 700],
     happy    |-> [valence |->  800, arousal |-> 500],
     sad      |-> [valence |-> -600, arousal |-> 200],
     surprise |-> [valence |->  400, arousal |-> 800],
     neutral  |-> [valence |->    0, arousal |->   0]]

\* the weight floor 0.1 of _integrate_emotions, in units of 1/10000
WeightFloor == 1000

(***************************************************************************)
(* Helpers.                                                                *)
(***************************************************************************)
Min(a, b) == IF a < b THEN a ELSE b

Abs(a) == IF a < 0 THEN -a ELSE a

\* the exact value n/d (d > 0) as a fraction in lowest terms
Frac(n, d) ==
    LET g == CHOOSE k \in 1..d :
                /\ n % k = 0 /\ d % k = 0
                /\ \A m \in (k + 1)..d : ~(n % m = 0 /\ d % m = 0)
    IN  [num |-> n \div g, den |-> d \div g]

RECURSIVE SeqSum(_)
SeqSum(s) == IF s = <<>> THEN 0 ELSE Head(s) + SeqSum(Tail(s))

\* dict.get(key, default) on a mapping whose keys may be absent
Get(m, k, d) == IF k \in DOMAIN m THEN m[k] ELSE d

\* the value None
None == "None"

\* variant: a deque without maxlen
DequeAppend_noEvict(q, x, maxlen) == Append(q, x)

\* deque.append on a deque with maxlen: at capacity the oldest entry goes
DequeAppend(q, x, maxlen) ==
    IF Len(q) >= maxlen THEN Append(Tail(q), x) ELSE Append(q, x)

(***************************************************************************)
(* _integrate_emotions: the source weight and the fold.                    *)
(***************************************************************************)
\* an observation: the arguments of one _integrate_emotions call
Observation(source, emotion, confidence, valence, arousal) ==
    [source |-> source, emotion |-> emotion, confidence |-> confidence,
     valence |-> valence, arousal |-> arousal]

\* an update that returned None before reaching _integrate_emotions
NoObservation == Observation("none", None, 0, 0, 0)

\* variant: the behavior source weighs 0.15
SourceWeight_lightBehavior(source, confidence) ==
    IF source = "face" THEN 5 * confidence
    ELSE IF source = "voice" THEN 3 * confidence
    ELSE IF source = "behavior" THEN (3 * confidence) \div 2
    ELSE 0

\* weight = 0.5 / 0.3 / 0.2 * confidence, in units of 1/10000
SourceWeight(source, confidence) ==
    IF source = "face" THEN 5 * confidence
    ELSE IF source = "voice" THEN 3 * confidence
    ELSE IF source = "behavior" THEN 2 * confidence
    ELSE 0

\* variant: the floor itself is discarded too
BelowFloor_inclusive(weight) == weight <= WeightFloor

\* variant: a floor of 0.05
BelowFloor_lowered(weight) == weight < WeightFloor \div 2

\* "if weight < 0.1: return"
BelowFloor(weight) == weight < WeightFloor

\* the whole of _integrate_emotions, run without interruption
integrate_emotions(obs) ==
    IF BelowFloor(SourceWeight(obs.source, obs.confidence))
    THEN UNCHANGED <<emotion_history, valence_history, arousal_history>>
    ELSE /\ emotion_history' = DequeAppend(emotion_history, obs.emotion, emotion_memory)
         /\ valence_history' = DequeAppend(valence_history, obs.valence, emotion_memory)
         /\ arousal_history' = DequeAppend(arousal_history, obs.arousal, emotion_memory)

(***************************************************************************)
(* update_voice_emotion: the rules on (volume, pitch, is_speaking).        *)
(***************************************************************************)
\* variant: the happy rule tested before the loud rules
VoiceObservation_happyFirst(audio_features) ==
    LET volume      == Get(audio_features, "volume", 0)
        pitch       == Get(audio_features, "pitch", 0)
        is_speaking == Get(audio_features, "is_speaking", FALSE)
    IN  IF ~is_speaking
        THEN Observation("voice", "neutral", 500, 0, 0)
        ELSE IF volume > 600 /\ 150 < pitch /\ pitch < 250
        THEN Observation("voice", "happy", Min(650, volume), 700, 600)
        ELSE IF volume > 700 /\ pitch > 200
        THEN IF pitch > 300
             THEN Observation("voice", "surprise", Min(700, volume), 300, 800)
             ELSE Observation("voice", "angry", Min(700, volume), -800, 800)
        ELSE IF volume < 300 /\ pitch < 150
        THEN Observation("voice", "sad", 600, -600, 200)
        ELSE Observation("voice", "neutral", 500, 0, 300)

\* variant: a mapping without is_speaking counts as speaking
VoiceObservation_speakingDefault(audio_features) ==
    LET volume      == Get(audio_features, "volume", 0)
        pitch       == Get(audio_features, "pitch", 0)
        is_speaking == Get(audio_features, "is_speaking", TRUE)
    IN  IF ~is_speaking
        THEN Observation("voice", "neutral", 500, 0, 0)
        ELSE IF volume > 700 /\ pitch > 200
        THEN IF pitch > 300
             THEN Observation("voice", "surprise", Min(700, volume), 300, 800)
             ELSE Observation("voice", "angry", Min(700, volume), -800, 800)
        ELSE IF volume > 600 /\ 150 < pitch /\ pitch < 250
        THEN Observation("voice", "happy", Min(650, volume), 700, 600)
        ELSE IF volume < 300 /\ pitch < 150
        THEN Observation("voice", "sad", 600, -600, 200)
        ELSE Observation("voice", "neutral", 500, 0, 300)

VoiceObservation(audio_features) ==
    LET volume      == Get(audio_features, "volume", 0)
        pitch       == Get(audio_features, "pitch", 0)
        is_speaking == Get(audio_features, "is_speaking", FALSE)
    IN  IF ~is_speaking
        THEN Observation("voice", "neutral", 500, 0, 0)
        ELSE IF volume > 700 /\ pitch > 200
        THEN IF pitch > 300
             THEN Observation("voice", "surprise", Min(700, volume), 300, 800)
             ELSE Observation("voice", "angry", Min(700, volume), -800, 800)
        ELSE IF volume > 600 /\ 150 < pitch /\ pitch < 250
        THEN Observation("voice", "happy", Min(650, volume), 700, 600)
        ELSE IF volume < 300 /\ pitch < 150
        THEN Observation("voice", "sad", 600, -600, 200)
        ELSE Observation("voice", "neutral", 500, 0, 300)

(***************************************************************************)
(* update_behavior_emotion: the rules on motion, typing and focus.         *)
(***************************************************************************)
\* variant: typing speed 300 counts as fast
BehaviorObservation_speedInclusive(b) ==
    LET arousal == (b.motion_level * 5) \div 10
        positivity == (b.focus_level * 6 - b.typing_errors * 4) \div 10
    IN  IF b.motion_level > 600 /\ b.typing_speed >= 300 /\ b.typing_errors < 200
        THEN Observation("behavior", "happy", 650, 700, arousal)
        ELSE IF b.motion_level > 600 /\ b.typing_speed >= 300 /\ b.typing_errors > 300
        THEN Observation("behavior", "angry", 600, -600, arousal)
        ELSE IF b.motion_level < 200 /\ b.typing_speed < 150
        THEN Observation("behavior", "sad", 550, -400, arousal)
        ELSE IF 300 < b.motion_level /\ b.motion_level < 500 /\ b.focus_level > 700
        THEN Observation("behavior", "neutral", 700, 200, arousal)
        ELSE IF positivity > 300
        THEN Observation("behavior", "happy", 500, positivity, arousal)
        ELSE IF positivity < -200
        THEN Observation("behavior", "sad", 500, positivity, arousal)
        ELSE Observation("behavior", "neutral", 600, positivity, arousal)

\* variant: the rows of strong motion and fast typing set their own arousal
BehaviorObservation_rowArousal(b) ==
    LET arousal == (b.motion_level * 5) \div 10
        positivity == (b.focus_level * 6 - b.typing_errors * 4) \div 10
    IN  IF b.motion_level > 600 /\ b.typing_speed > 300 /\ b.typing_errors < 200
        THEN Observation("behavior", "happy", 650, 700, 600)
        ELSE IF b.motion_level > 600 /\ b.typing_speed > 300 /\ b.typing_errors > 300
        THEN Observation("behavior", "angry", 600, -600, 800)
        ELSE IF b.motion_level < 200 /\ b.typing_speed < 150
        THEN Observation("behavior", "sad", 550, -400, arousal)
        ELSE IF 300 < b.motion_level /\ b.motion_level < 500 /\ b.focus_level > 700
        THEN Observation("behavior", "neutral", 700, 200, arousal)
        ELSE IF positivity > 300
        THEN Observation("behavior", "happy", 500, positivity, arousal)
        ELSE IF positivity < -200
        THEN Observation("behavior", "sad", 500, positivity, arousal)
        ELSE Observation("behavior", "neutral", 600, positivity, arousal)

BehaviorObservation(b) ==
    LET arousal == (b.motion_level * 5) \div 10
        positivity == (b.focus_level * 6 - b.typing_errors * 4) \div 10
    IN  IF b.motion_level > 600 /\ b.typing_speed > 300 /\ b.typing_errors < 200
        THEN Observation("behavior", "happy", 650, 700, arousal)
        ELSE IF b.motion_level > 600 /\ b.typing_speed > 300 /\ b.typing_errors > 300
        THEN Observation("behavior", "angry", 600, -600, arousal)
        ELSE IF b.motion_level < 200 /\ b.typing_speed < 150
        THEN Observation("behavior", "sad", 550, -400, arousal)
        ELSE IF 300 < b.motion_level /\ b.motion_level < 500 /\ b.focus_level > 700
        THEN Observation("behavior", "neutral", 700, 200, arousal)
        ELSE IF positivity > 300
        THEN Observation("behavior", "happy", 500, positivity, arousal)
        ELSE IF positivity < -200
        THEN Observation("behavior", "sad", 500, positivity, arousal)
        ELSE Observation("behavior", "neutral", 600, positivity, arousal)

(***************************************************************************)
(* update_face_emotion: what each build's face analysis makes of a frame.  *)
(* A frame is described by what the vision library reports on it:          *)
(*   ok        FALSE when the analysis raises                              *)
(*   face      whether the library's own face detector finds a face; with  *)
(*             enforce_detection=False DeepFace analyses the whole image   *)
(*             when it finds none, the other two builds return None        *)
(*   emotions  DeepFace's scores in percent, dominant its dominant_emotion *)
(*   mouth     "smile" (smile_ratio < 0.2, wide), "open" (> 0.5) or "none" *)
(*   brow      "high" (eyebrow_nose_dist > 30), "low" (< 15) or "none"     *)
(*   roi       "bright" (avg_brightness > 0.55), "contrast" (std > 0.15),  *)
(*             "flat", or "empty" (face_roi.size = 0)                      *)
(***************************************************************************)
Frame(ok, face, emotions, dominant, mouth, brow, roi) ==
    [ok |-> ok, face |-> face, emotions |-> emotions, dominant |-> dominant,
     mouth |-> mouth, brow |-> brow, roi |-> roi]

Scores(angry, disgust, fear, happy, sad, surprise, neutral) ==
    [angry |-> angry, disgust |-> disgust, fear |-> fear, happy |-> happy,
     sad |-> sad, surprise |-> surprise, neutral |-> neutral]

\* the loop over emotions.items(): scores above 5% weigh the lookup table
RECURSIVE WeightedSum(_, _, _)
WeightedSum(emotions, field, i) ==
    IF i > Len(emotion_categories) THEN 0
    ELSE LET emotion == emotion_categories[i]
             normalized_score == emotions[emotion] * 10
         IN  (IF normalized_score > 50
              THEN (normalized_score * emotion_mappings[emotion][field]) \div 1000
              ELSE 0)
             + WeightedSum(emotions, field, i + 1)

DeepFaceObservation(frame) ==
    Observation("face", frame.dominant, frame.emotions[frame.dominant] * 10,
                WeightedSum(frame.emotions, "valence", 1),
                WeightedSum(frame.emotions, "arousal", 1))

FaceRecognitionObservation(frame) ==
    LET mouth == IF frame.mouth = "smile" THEN <<"happy", 500, 400>>
                 ELSE IF frame.mouth = "open" THEN <<"surprise", 200, 700>>
                 ELSE <<"neutral", 0, 300>>
        brow  == IF frame.brow = "high" THEN <<"surprise", 200, 800>>
                 ELSE IF frame.brow = "low" THEN <<"angry", -600, 700>>
                 ELSE mouth
    IN  Observation("face", brow[1], 600, brow[2], brow[3])

OpenCVObservation(frame) ==
    IF frame.roi = "bright" THEN Observation("face", "happy", 500, 300, 400)
    ELSE IF frame.roi = "contrast" THEN Observation("face", "surprise", 500, 100, 600)
    ELSE Observation("face", "neutral", 500, 0, 200)

FaceObservation(build, frame) ==
    IF ~frame.ok THEN NoObservation
    ELSE IF build = "deepface" THEN DeepFaceObservation(frame)
    ELSE IF ~frame.face THEN NoObservation
    ELSE IF build = "face_recognition" THEN FaceRecognitionObservation(frame)
    ELSE OpenCVObservation(frame)

(***************************************************************************)
(* get_analysis_results: the fused snapshot of the rolling history.        *)
(***************************************************************************)
\* the dict emotion_counts, as its items in insertion order
RECURSIVE CountItems(_, _)
CountItems(history, items) ==
    IF history = <<>> THEN items
    ELSE LET emotion == Head(history)
             at == {i \in 1..Len(items) : items[i][1] = emotion}
         IN  IF at # {}
             THEN LET i == CHOOSE j \in at : TRUE
                  IN  CountItems(Tail(history),
                                 [items EXCEPT ![i] = <<emotion, items[i][2] + 1>>])
             ELSE CountItems(Tail(history), Append(items, <<emotion, 1>>))

\* variant: ties go to the last maximal key
RECURSIVE MaxKey_lastWins(_, _, _)
MaxKey_lastWins(items, i, best) ==
    IF i > Len(items) THEN items[best][1]
    ELSE MaxKey_lastWins(items, i + 1,
                         IF items[i][2] >= items[best][2] THEN i ELSE best)

\* max(emotion_counts, key=emotion_counts.get): the first item no later one beats
RECURSIVE MaxKey(_, _, _)
MaxKey(items, i, best) ==
    IF i > Len(items) THEN items[best][1]
    ELSE MaxKey(items, i + 1, IF items[i][2] > items[best][2] THEN i ELSE best)

\* the dict as a mapping: equality of dicts ignores insertion order
AsMapping(items) ==
    [emotion \in {items[i][1] : i \in 1..Len(items)} |->
        LET i == CHOOSE j \in 1..Len(items) : items[j][1] = emotion
        IN  items[i][2]]

\* variant: an empty deque averages to 0.5
Mean_midpoint(history) ==
    IF history # <<>> THEN Frac(SeqSum(history), Len(history)) ELSE Frac(500, 1000)

\* sum(h) / len(h) if h else 0.0
Mean(history) ==
    IF history # <<>> THEN Frac(SeqSum(history), Len(history)) ELSE Frac(0, 1)

\* variant: the intensity keeps the sign of the valence
Intensity_signed(avg_valence, avg_arousal) ==
    Frac(avg_valence.num * avg_arousal.num, avg_valence.den * avg_arousal.den)

\* abs(avg_valence) * avg_arousal, in millionths
Intensity(avg_valence, avg_arousal) ==
    Frac(Abs(avg_valence.num) * avg_arousal.num, avg_valence.den * avg_arousal.den)

\* the returned dict, given what each read of the object's fields saw
Snapshot(avg_valence, avg_arousal, items, emotion_len, fe, ve, be) ==
    LET dominant_emotion == IF items # <<>> THEN MaxKey(items, 1, 1) ELSE "neutral"
        emotion_confidence ==
            IF items # <<>>
            THEN Frac(AsMapping(items)[dominant_emotion], emotion_len)
            ELSE Frac(0, 1)
    IN  [emotion |-> dominant_emotion,
         confidence |-> emotion_confidence,
         intensity |-> Intensity(avg_valence, avg_arousal),
         valence |-> avg_valence,
         arousal |-> avg_arousal,
         face_emotion |-> fe,
         voice_emotion |-> ve,
         behavior_emotion |-> be,
         emotion_distribution |-> AsMapping(items)]

\* get_analysis_results run without interruption on the given field values
AnalysisOf(emotions, valences, arousals, fe, ve, be) ==
    Snapshot(Mean(valences), Mean(arousals), CountItems(emotions, <<>>),
             Len(emotions), fe, ve, be)

\* what get_analysis_results returns in the current state
AnalysisResults ==
    AnalysisOf(emotion_history, valence_history, arousal_history,
               face_emotion, voice_emotion, behavior_emotion)

\* what get_analysis_results returns in the state a step leads to
AnalysisResultsAfter ==
    AnalysisOf(emotion_history', valence_history', arousal_history',
               face_emotion', voice_emotion', behavior_emotion')

(***************************************************************************)
(* Inputs.                                                                 *)
(***************************************************************************)
Backends == {"deepface", "face_recognition", "opencv"}

NoScores == Scores(0, 0, 0, 0, 0, 0, 100)

FramesOf(build) ==
    IF build = "deepface"
    THEN {Frame(TRUE, TRUE, Scores(0, 0, 0, 90, 0, 0, 10), "happy", "none", "none", "empty"),
          Frame(TRUE, TRUE, Scores(14, 14, 14, 14, 16, 14, 14), "sad", "none", "none", "empty"),
          Frame(TRUE, TRUE, Scores(16, 16, 20, 16, 16, 16, 0), "fear", "none", "none", "empty"),
          Frame(FALSE, FALSE, NoScores, "neutral", "none", "none", "empty")}
    ELSE IF build = "face_recognition"
    THEN {Frame(TRUE, TRUE, NoScores, "neutral", "smile", "none", "empty"),
          Frame(TRUE, TRUE, NoScores, "neutral", "open", "low", "empty"),
          Frame(TRUE, TRUE, NoScores, "neutral", "none", "none", "empty"),
          Frame(TRUE, FALSE, NoScores, "neutral", "none", "none", "empty")}
    ELSE {Frame(TRUE, TRUE, NoScores, "neutral", "none", "none", "bright"),
          Frame(TRUE, TRUE, NoScores, "neutral", "none", "none", "contrast"),
          Frame(TRUE, TRUE, NoScores, "neutral", "none", "none", "empty"),
          Frame(TRUE, FALSE, NoScores, "neutral", "none", "none", "empty")}

AudioFeatures(volume, pitch, is_speaking) ==
    [volume |-> volume, pitch |-> pitch, is_speaking |-> is_speaking]

VoiceInputs ==
    {AudioFeatures(800, 320, TRUE),
     AudioFeatures(0, 0, FALSE),
     AudioFeatures(800, 320, FALSE)}

Behavior(motion_level, typing_speed, typing_errors, focus_level) ==
    [motion_level |-> motion_level, typing_speed |-> typing_speed,
     typing_errors |-> typing_errors, focus_level |-> focus_level]

BehaviorInputs ==
    {Behavior(700, 350, 100, 900),
     Behavior(0, 0, 0, 500),
     Behavior(500, 200, 0, 600)}

(***************************************************************************)
(* The data integrator (src/src/data_integrator.py).  A modality snapshot  *)
(* is a mapping whose keys may be absent.  brightness, noise_level,        *)
(* motion_level, focus_level and valence are in thousandths, typing_speed  *)
(* in characters per minute; the three scores in [0,1] are in units of     *)
(* 1/10000, so that 0.6 * x and 0.4 * y are 6 * x and 4 * y; mood_score is *)
(* the valence itself, in thousandths.                                     *)
(***************************************************************************)
\* the dict {}
EmptyDict == [k \in {} |-> 0]

\* d[key] = value
SetItem(d, key, value) ==
    [k \in DOMAIN d \cup {key} |-> IF k = key THEN value ELSE d[k]]

\* d.update(other)
Update(d, other) ==
    [k \in DOMAIN d \cup DOMAIN other |-> IF k \in DOMAIN other THEN other[k] ELSE d[k]]

\* a str held under a key that may hold a mapping as well
Str(s) == [str |-> s]

\* lines 160-166: the dict literal over the five stored snapshots
Nested(video, audio, environment, emotion, input) ==
    [video |-> video, audio |-> audio, environment |-> environment,
     emotion |-> emotion, input |-> input]

\* variant: a missing brightness is hoisted as the ideal 0.5
Hoisted_idealBrightness(video, audio, emotion, input) ==
    [brightness |-> Get(video, "brightness", 500),
     noise_level |-> Get(audio, "noise_level", 0),
     emotion |-> Str(Get(emotion, "emotion", "neutral")),
     typing_speed |-> Get(input, "typing_speed", 0),
     focus_level |-> Get(input, "focus_level", 500)]

\* lines 169-182: the key features, read from the stored snapshots
Hoisted(video, audio, emotion, input) ==
    [brightness |-> Get(video, "brightness", 0),
     noise_level |-> Get(audio, "noise_level", 0),
     emotion |-> Str(Get(emotion, "emotion", "neutral")),
     typing_speed |-> Get(input, "typing_speed", 0),
     focus_level |-> Get(input, "focus_level", 500)]

\* variant: the frame is taken out of the nested video snapshot
WithFrameData_dropped(nested_video, video) ==
    [k \in DOMAIN nested_video \ {"frame_data"} |-> nested_video[k]]

\* lines 185-186: integrated_data['video']['frame_data'] = video_data['frame_data']
WithFrameData(nested_video, video) ==
    IF "frame_data" \in DOMAIN video
    THEN SetItem(nested_video, "frame_data", video["frame_data"])
    ELSE nested_video

\* lines 168-191 on the dict local built by lines 160-166, given the stored
\* snapshots as they are when these lines run
Integrated(local, video, audio, emotion, input) ==
    LET updated == Update(local, Hoisted(video, audio, emotion, input))
    IN  [updated EXCEPT !["video"] = WithFrameData(@, video)]

\* _integrate_data run without interruption
IntegrateData(video, audio, environment, emotion, input) ==
    Integrated(Nested(video, audio, environment, emotion, input),
               video, audio, emotion, input)

\* variant: brightness above the ideal is not penalised
EnvironmentScore_signed(brightness, noise_level) ==
    LET brightness_score == 1000 - 2 * (500 - brightness)
        noise_score == 1000 - noise_level
    IN  6 * brightness_score + 4 * noise_score

\* lines 206-208
EnvironmentScore(brightness, noise_level) ==
    LET brightness_score == 1000 - 2 * Abs(brightness - 500)
        noise_score == 1000 - noise_level
    IN  6 * brightness_score + 4 * noise_score

\* variant: typing speed is not capped
NormTyping_uncapped(typing_speed) == (typing_speed * 1000) \div 300

\* line 212: min(1.0, typing_speed / 300.0)
NormTyping(typing_speed) == Min(1000, (typing_speed * 1000) \div 300)

\* line 214
ProductivityScore(focus_level, typing_speed) ==
    7 * focus_level + 3 * NormTyping(typing_speed)

\* variant: the activity term is the motion level itself
WellbeingScore_linear(valence, motion_level) ==
    LET emotion_positivity2 == valence + 1000
        activity_score == motion_level
    IN  (6 * emotion_positivity2) \div 2 + 4 * activity_score

\* lines 221-225; emotion_positivity2 is twice emotion_positivity
WellbeingScore(valence, motion_level) ==
    LET emotion_positivity2 == valence + 1000
        activity_score == 1000 - 2 * Abs(motion_level - 500)
    IN  (6 * emotion_positivity2) \div 2 + 4 * activity_score

\* variant: the row is built before the scores of the tick are stored
DataPoint_staleScores(timestamp, integrated, video, emotion, input, productivity, wellbeing, mood, environment) ==
    [timestamp |-> timestamp,
     brightness |-> Get(integrated, "brightness", 0),
     noise_level |-> Get(integrated, "noise_level", 0),
     motion_level |-> Get(video, "motion_level", 0),
     emotion |-> Get(emotion, "emotion", "neutral"),
     valence |-> Get(emotion, "valence", 0),
     arousal |-> Get(emotion, "arousal", 0),
     typing_speed |-> Get(input, "typing_speed", 0),
     focus_level |-> Get(input, "focus_level", 500),
     productivity_score |-> 5000,
     wellbeing_score |-> 5000,
     mood_score |-> 0,
     environment_score |-> 5000]

\* lines 230-245: the row _append_to_history builds
DataPoint(timestamp, integrated, video, emotion, input, productivity, wellbeing, mood, environment) ==
    [timestamp |-> timestamp,
     brightness |-> Get(integrated, "brightness", 0),
     noise_level |-> Get(integrated, "noise_level", 0),
     motion_level |-> Get(video, "motion_level", 0),
     emotion |-> Get(emotion, "emotion", "neutral"),
     valence |-> Get(emotion, "valence", 0),
     arousal |-> Get(emotion, "arousal", 0),
     typing_speed |-> Get(input, "typing_speed", 0),
     focus_level |-> Get(input, "focus_level", 500),
     productivity_score |-> productivity,
     wellbeing_score |-> wellbeing,
     mood_score |-> mood,
     environment_score |-> environment]

\* variant: a full history keeps its oldest rows
Appended_keepOldest(history, point, maxlen) ==
    LET rows == Append(history, point)
    IN  IF Len(rows) > maxlen THEN SubSeq(rows, 1, maxlen) ELSE rows

\* lines 251-258: concat, then iloc[-history_length:]
Appended(history, point, maxlen) ==
    LET rows == Append(history, point)
    IN  IF Len(rows) > maxlen
        THEN SubSeq(rows, Len(rows) - maxlen + 1, Len(rows))
        ELSE rows

\* lines 304-314: a full queue gives up its oldest result, then put
QueuePut(queue, result, maxsize) ==
    IF Len(queue) >= maxsize THEN Append(Tail(queue), result) ELSE Append(queue, result)

\* DataIntegrator.get_analysis_results: a fresh merge plus the stored scores
IntegratorResults(video, audio, environment, emotion, input, productivity, wellbeing, mood, environment_sc, now) ==
    Update(IntegrateData(video, audio, environment, emotion, input),
           [productivity_score |-> productivity,
            wellbeing_score |-> wellbeing,
            mood_score |-> mood,
            environment_score |-> environment_sc,
            timestamp |-> now])

\* the threads that call start() and stop(): the main thread of MoodSense
\* and one other
Callers == {"main", "other"}

\* a thread at the head of _integration_loop; computed holds the scores the
\* thread stored in its current tick
NewLoop ==
    [pc |-> "test", local |-> EmptyDict, computed |-> <<>>,
     last_save_time |-> 0, slept |-> 0]

InitModalities ==
    /\ video_data = EmptyDict
    /\ audio_data = EmptyDict
    /\ environment_data = EmptyDict
    /\ emotion_data = EmptyDict
    /\ input_data = EmptyDict

\* DataIntegrator.__init__ but for the five snapshots
InitIntegratorState ==
    /\ running = FALSE
    /\ integrated_data = EmptyDict
    /\ productivity_score = 5000
    /\ wellbeing_score = 5000
    /\ mood_score = 0
    /\ environment_score = 5000
    /\ data_history = <<>>
    /\ result_queue = <<>>
    /\ saved = [rows |-> <<>>, calls |-> 0, failed |-> FALSE]
    /\ integration_thread = 0
    /\ loops = <<>>
    /\ callers = [c \in Callers |-> "idle"]
    /\ calls = [start |-> 0, stop |-> 0, update |-> 0]
    /\ clock = 0

InitIntegrator == InitModalities /\ InitIntegratorState

(***************************************************************************)
(* The calls of the sync thread, each run to completion.                   *)
(***************************************************************************)
Call(op, arg, obs, ret) == [op |-> op, arg |-> arg, obs |-> obs, ret |-> ret]

\* variant: face_emotion is set only by an observation that is folded
update_face_emotion_foldedOnly(frame) ==
    LET obs == FaceObservation(backend, frame)
    IN  /\ IF obs = NoObservation
           THEN /\ UNCHANGED detector
                /\ last' = Call("face", frame, obs, None)
           ELSE /\ face_emotion' = IF BelowFloor(SourceWeight(obs.source, obs.confidence))
                                   THEN face_emotion ELSE obs.emotion
                /\ integrate_emotions(obs)
                /\ UNCHANGED <<voice_emotion, behavior_emotion>>
                /\ last' = Call("face", frame, obs, obs.emotion)
        /\ UNCHANGED <<backend, capture, input_monitor, integrator, conc>>

update_face_emotion(frame) ==
    LET obs == FaceObservation(backend, frame)
    IN  /\ IF obs = NoObservation
           THEN /\ UNCHANGED detector
                /\ last' = Call("face", frame, obs, None)
           ELSE /\ face_emotion' = obs.emotion
                /\ integrate_emotions(obs)
                /\ UNCHANGED <<voice_emotion, behavior_emotion>>
                /\ last' = Call("face", frame, obs, obs.emotion)
        /\ UNCHANGED <<backend, capture, input_monitor, integrator, conc>>

update_voice_emotion(audio_features) ==
    LET obs == VoiceObservation(audio_features)
    IN  /\ voice_emotion' = obs.emotion
        /\ integrate_emotions(obs)
        /\ last' = Call("voice", audio_features, obs, obs.emotion)
        /\ UNCHANGED <<face_emotion, behavior_emotion, backend, capture, input_monitor, integrator, conc>>

update_behavior_emotion(b) ==
    LET obs == BehaviorObservation(b)
    IN  /\ behavior_emotion' = obs.emotion
        /\ integrate_emotions(obs)
        /\ last' = Call("behavior", b, obs, obs.emotion)
        /\ UNCHANGED <<face_emotion, voice_emotion, backend, capture, input_monitor, integrator, conc>>

\* variant: the read consumes the label history
get_analysis_results_drain ==
    /\ last' = Call("get", <<>>, NoObservation, AnalysisResults)
    /\ emotion_history' = <<>>
    /\ UNCHANGED <<valence_history, arousal_history, face_emotion, voice_emotion,
                   behavior_emotion, backend, capture, input_monitor, integrator, conc>>

get_analysis_results ==
    /\ last' = Call("get", <<>>, NoObservation, AnalysisResults)
    /\ UNCHANGED <<detector, backend, capture, input_monitor, integrator, conc>>

\* the locals of a get_analysis_results call of the analysis thread; seen
\* holds, for each read of a deque, how many appends it had had by then
NoSeen == [v_sum |-> 0, v_len |-> 0, a_sum |-> 0, a_len |-> 0, e |-> 0, e_len |-> 0]

NoLocals ==
    [sum |-> 0, avg_valence |-> Frac(0, 1), avg_arousal |-> Frac(0, 1),
     items |-> <<>>, emotion_len |-> 0, seen |-> NoSeen,
     returned |-> FALSE, raised |-> FALSE,
     result |-> Snapshot(Frac(0, 1), Frac(0, 1), <<>>, 0, "neutral", "neutral", "neutral")]

InitDetector ==
    /\ backend \in Backends
    /\ emotion_history = <<>>
    /\ valence_history = <<>>
    /\ arousal_history = <<>>
    /\ face_emotion = "neutral"
    /\ voice_emotion = "neutral"
    /\ behavior_emotion = "neutral"
    /\ last = Call("init", <<>>, NoObservation, None)
    /\ w_pc = "idle"
    /\ w_obs = NoObservation
    /\ r_pc = "idle"
    /\ r_loc = NoLocals
    /\ appended = [e |-> 0, v |-> 0, a |-> 0]

\* VideoAnalyzer.__init__, and _capture_loop at its head
InitCapture ==
    /\ frame_queue = <<>>
    /\ last_frame = None
    /\ capture_pc = "read"
    /\ frames_read = 0

\* InputMonitor.__init__ (lines 34-60); times are in units of 30 seconds
InitMonitor ==
    input_monitor = [keystroke_times |-> <<>>, keystroke_chars |-> <<>>,
                     typing_speed |-> 0, typing_errors |-> Frac(0, 1),
                     backspace_rate |-> Frac(0, 1), focus_level |-> 500,
                     last_activity_time |-> 0, now |-> 0, raised |-> FALSE]

\* MoodSense.__init__: a fresh detector, a fresh integrator, a fresh video
\* analyzer and a fresh input monitor
Init == InitDetector /\ InitIntegrator /\ InitCapture /\ InitMonitor

Next ==
    \/ \E frame \in FramesOf(backend) : update_face_emotion(frame)
    \/ \E audio_features \in VoiceInputs : update_voice_emotion(audio_features)
    \/ \E b \in BehaviorInputs : update_behavior_emotion(b)
    \/ get_analysis_results

Spec == Init /\ [][Next]_vars

(***************************************************************************)
(* Properties of the fold and of the fused snapshot (Spec).                *)
(***************************************************************************)
FoldOps == {"face", "voice", "behavior"}

\* the step was an update that reached _integrate_emotions
Folding == last'.op \in FoldOps /\ last'.obs # NoObservation

\* the source weight as the specification states it, in units of 1/10000
StatedWeight(obs) ==
    CASE obs.source = "face" -> 5 * obs.confidence
      [] obs.source = "voice" -> 3 * obs.confidence
      [] obs.source = "behavior" -> 2 * obs.confidence
      [] OTHER -> 0

\* h2 is h with x appended, the oldest entry evicted when h was full
OneAppended(h, h2, x) ==
    IF Len(h) < emotion_memory
    THEN h2 = Append(h, x)
    ELSE /\ Len(h2) = emotion_memory
         /\ \A i \in 1..(emotion_memory - 1) : h2[i] = h[i + 1]
         /\ h2[emotion_memory] = x

AllAppended(obs) ==
    /\ OneAppended(emotion_history, emotion_history', obs.emotion)
    /\ OneAppended(valence_history, valence_history', obs.valence)
    /\ OneAppended(arousal_history, arousal_history', obs.arousal)

HistoriesUnchanged ==
    UNCHANGED <<emotion_history, valence_history, arousal_history>>

C1_LengthsAgree ==
    /\ Len(emotion_history) = Len(valence_history)
    /\ Len(valence_history) = Len(arousal_history)
    /\ Len(emotion_history) <= emotion_memory

C1_EvictsOldest ==
    Folding /\ Len(emotion_history) = emotion_memory
        => HistoriesUnchanged \/ AllAppended(last'.obs)

\* C1: after every fold the three rolling sequences have one common length,
\* which never exceeds emotion_memory, and a fold that arrives at full
\* capacity evicts the oldest entry of each sequence.
C1_HistoryBound == []C1_LengthsAgree /\ [][C1_EvictsOldest]_vars

\* a face observation that was folded (weight exactly 0.1) has since been
\* evicted from the full window by later folds
C1_Witness ==
    /\ backend = "deepface"
    /\ face_emotion = "fear"
    /\ Len(valence_history) = emotion_memory
    /\ \A i \in 1..Len(valence_history) : valence_history[i] # -268
    /\ last.op = "voice"

\* C3: a fold appends exactly one entry to each rolling sequence if and only
\* if its source weight is at least 0.1, and otherwise leaves all three
\* unchanged.
C3_FoldIffWeight ==
    [][Folding =>
         IF StatedWeight(last'.obs) >= WeightFloor
         THEN AllAppended(last'.obs)
         ELSE HistoriesUnchanged]_vars

\* a behavior observation of weight exactly 0.1 has just been folded
C3_Witness ==
    /\ last.op = "behavior"
    /\ StatedWeight(last.obs) = WeightFloor
    /\ emotion_history # <<>>
    /\ emotion_history[Len(emotion_history)] = last.obs.emotion
    /\ valence_history[Len(valence_history)] = last.obs.valence

SubThreshold == Folding /\ StatedWeight(last'.obs) < WeightFloor

\* C4 as stated: a sub-threshold update leaves every field of the snapshot
\* as it was, the three last-raw labels included.
C4_SnapshotUnchanged == [][SubThreshold => AnalysisResultsAfter = AnalysisResults]_vars

RawField(source) ==
    CASE source = "face" -> "face_emotion"
      [] source = "voice" -> "voice_emotion"
      [] source = "behavior" -> "behavior_emotion"

\* C4 amended: a sub-threshold update changes nothing in the snapshot but
\* the last-raw label of its own source, which becomes the update's label.
C4_OnlyRawLabelChanges ==
    [][SubThreshold =>
         AnalysisResultsAfter =
            [AnalysisResults EXCEPT ![RawField(last'.obs.source)] = last'.obs.emotion]]_vars

\* a sub-threshold face update has changed face_emotion over a non-empty history
C4_Witness ==
    /\ last.op = "face"
    /\ last.obs # NoObservation
    /\ StatedWeight(last.obs) < WeightFloor
    /\ face_emotion = "sad"
    /\ emotion_history # <<>>
    /\ \A i \in 1..Len(emotion_history) : emotion_history[i] # "sad"

Count(emotion) ==
    Cardinality({i \in 1..Len(emotion_history) : emotion_history[i] = emotion})

First(emotion) ==
    CHOOSE i \in 1..Len(emotion_history) :
        /\ emotion_history[i] = emotion
        /\ \A j \in 1..(i - 1) : emotion_history[j] # emotion

Present == {emotion_history[i] : i \in 1..Len(emotion_history)}

\* C5: on a non-empty history the returned emotion has maximal count, ties go
\* to the tied label occurring earliest in the window, confidence is its
\* count over the history length, and the distribution maps each label
\* present to its count.
C5_MajorityVote ==
    last.op = "get" /\ emotion_history # <<>> =>
        LET r == last.ret
        IN  /\ r.emotion \in Present
            /\ \A l \in Present :
                  /\ Count(l) <= Count(r.emotion)
                  /\ (Count(l) = Count(r.emotion) /\ l # r.emotion
                        => First(r.emotion) < First(l))
            /\ r.confidence.num * Len(emotion_history) = Count(r.emotion) * r.confidence.den
            /\ r.emotion_distribution = [l \in Present |-> Count(l)]

\* a read of a window in which two labels tie and the earlier one is returned
C5_Witness ==
    /\ last.op = "get"
    /\ Len(emotion_history) = emotion_memory
    /\ emotion_history[1] # emotion_history[2]
    /\ Count(emotion_history[1]) = 1
    /\ Cardinality(Present) = emotion_memory
    /\ last.ret.emotion = emotion_history[1]

\* C6: on an empty history the snapshot is neutral with confidence,
\* intensity, valence and arousal 0 and an empty distribution.
C6_EmptyIsNeutral ==
    last.op = "get" /\ emotion_history = <<>> =>
        /\ last.ret.emotion = "neutral"
        /\ last.ret.confidence.num = 0
        /\ last.ret.intensity.num = 0
        /\ last.ret.valence.num = 0
        /\ last.ret.arousal.num = 0
        /\ DOMAIN last.ret.emotion_distribution = {}

\* a read of the empty history after a discarded face fold
C6_Witness ==
    /\ last.op = "get"
    /\ emotion_history = <<>>
    /\ face_emotion = "sad"

\* C7: get_analysis_results changes none of the three sequences nor the three
\* last-raw labels, so the next call returns the snapshot this one returned.
C7_PureRead ==
    [][last'.op = "get" =>
         /\ UNCHANGED detector
         /\ last'.ret = AnalysisResults
         /\ AnalysisResultsAfter = last'.ret]_vars

\* a read of a non-empty history
C7_Witness ==
    /\ last.op = "get"
    /\ emotion_history # <<>>
    /\ last.ret.confidence.num > 0

\* C10: a voice update with is_speaking false or absent appends nothing to
\* the rolling history.
C10_NotSpeakingSkipsFold ==
    [][last'.op = "voice" /\ ~Get(last'.arg, "is_speaking", FALSE)
         => HistoriesUnchanged]_vars

(***************************************************************************)
(* The rule tables, one update on a fresh detector per input of a grid     *)
(* that holds every threshold of the rules, its neighbours and the         *)
(* documented scenarios.  On every point of the grids the code's double    *)
(* arithmetic agrees with the exact values used here.                      *)
(***************************************************************************)
VoiceGrid ==
    {AudioFeatures(volume, pitch, is_speaking) :
        volume \in {0, 290, 300, 310, 600, 610, 640, 650, 660, 700, 710, 800, 1000},
        pitch \in {0, 149, 150, 151, 200, 201, 220, 249, 250, 251, 300, 301, 320},
        is_speaking \in BOOLEAN}

BehaviorGrid ==
    {Behavior(motion_level, typing_speed, typing_errors, focus_level) :
        motion_level \in {0, 190, 200, 300, 310, 400, 490, 500, 600, 610, 700, 1000},
        typing_speed \in {0, 149, 150, 300, 301, 350},
        typing_errors \in {0, 100, 190, 200, 300, 310, 500, 550, 1000},
        focus_level \in {0, 500, 700, 710, 900, 1000}}

InitFresh == Init /\ backend = "deepface"

VoiceRule ==
    \E audio_features \in VoiceGrid :
        last.op = "init" /\ update_voice_emotion(audio_features)

BehaviorRule ==
    \E b \in BehaviorGrid :
        last.op = "init" /\ update_behavior_emotion(b)

SpecVoice == InitFresh /\ [][VoiceRule]_vars

SpecBehavior == InitFresh /\ [][BehaviorRule]_vars

\* the voice rule table as stated, first matching row
VoiceTable(volume, pitch) ==
    CASE volume > 700 /\ pitch > 300 ->
            Observation("voice", "surprise", Min(700, volume), 300, 800)
      [] ~(volume > 700 /\ pitch > 300)
         /\ volume > 700 /\ 200 < pitch /\ pitch <= 300 ->
            Observation("voice", "angry", Min(700, volume), -800, 800)
      [] ~(volume > 700 /\ pitch > 200)
         /\ volume > 600 /\ 150 < pitch /\ pitch < 250 ->
            Observation("voice", "happy", Min(650, volume), 700, 600)
      [] ~(volume > 700 /\ pitch > 200)
         /\ ~(volume > 600 /\ 150 < pitch /\ pitch < 250)
         /\ volume < 300 /\ pitch < 150 ->
            Observation("voice", "sad", 600, -600, 200)
      [] OTHER ->
            Observation("voice", "neutral", 500, 0, 300)

\* C8: while speaking, update_voice_emotion yields the label, valence,
\* arousal and confidence of the first matching row of the voice rule table;
\* volume 0.8 with pitch 320 gives surprise, 0.3, 0.8, 0.7.
C8_VoiceRules ==
    last.op = "voice" /\ last.arg.is_speaking =>
        /\ last.obs = VoiceTable(last.arg.volume, last.arg.pitch)
        /\ last.ret = last.obs.emotion
        /\ voice_emotion = last.obs.emotion
        /\ (last.arg.volume = 800 /\ last.arg.pitch = 320 =>
                last.obs = Observation("voice", "surprise", 700, 300, 800))

\* the documented scenario has been classified and folded
C8_Witness ==
    /\ last.op = "voice"
    /\ last.arg = AudioFeatures(800, 320, TRUE)
    /\ last.ret = "surprise"
    /\ valence_history = <<300>>
    /\ arousal_history = <<800>>

\* the behavior rule table as stated, first matching row
BehaviorTable(motion, speed, errors, focus) ==
    LET positivity == (focus * 6 - errors * 4) \div 10
        row1 == motion > 600 /\ speed > 300 /\ errors < 200
        row2 == motion > 600 /\ speed > 300 /\ errors > 300
        row3 == motion < 200 /\ speed < 150
        row4 == 300 < motion /\ motion < 500 /\ focus > 700
    IN  CASE row1 -> <<"happy", 700, 650>>
          [] ~row1 /\ row2 -> <<"angry", -600, 600>>
          [] ~row1 /\ ~row2 /\ row3 -> <<"sad", -400, 550>>
          [] ~row1 /\ ~row2 /\ ~row3 /\ row4 -> <<"neutral", 200, 700>>
          [] OTHER ->
                IF positivity > 300 THEN <<"happy", positivity, 500>>
                ELSE IF positivity < -200 THEN <<"sad", positivity, 500>>
                ELSE <<"neutral", positivity, 600>>

\* C9: update_behavior_emotion yields the label, valence and confidence of the
\* first matching row of the behavior rule table; motion 0.7, speed 350,
\* errors 0.1, focus 0.9 gives happy, 0.7, 0.65.
C9_BehaviorRules ==
    last.op = "behavior" =>
        LET b == last.arg
            row == BehaviorTable(b.motion_level, b.typing_speed,
                                 b.typing_errors, b.focus_level)
        IN  /\ <<last.obs.emotion, last.obs.valence, last.obs.confidence>> = row
            /\ last.ret = row[1]
            /\ behavior_emotion = row[1]
            /\ (b = Behavior(700, 350, 100, 900) => row = <<"happy", 700, 650>>)

\* the documented scenario has been classified and folded
C9_Witness ==
    /\ last.op = "behavior"
    /\ last.arg = Behavior(700, 350, 100, 900)
    /\ last.ret = "happy"
    /\ last.obs.confidence = 650
    /\ valence_history = <<700>>

(***************************************************************************)
(* Two threads on one detector (SpecConc): the sync thread of              *)
(* MoodSense._data_sync_loop folds observations, one deque append at a     *)
(* time, while the analysis thread of EmotionDetector._analysis_loop runs  *)
(* get_analysis_results, one read of a field at a time.  No lock guards    *)
(* either; the interpreter may switch threads between any two of these.    *)
(***************************************************************************)
\* sync thread: an update up to the weight test of _integrate_emotions
SyncUpdate(op, arg, obs) ==
    /\ w_pc = "idle"
    /\ appended.e < MaxFolds
    /\ IF obs = NoObservation
       THEN /\ UNCHANGED <<face_emotion, voice_emotion, behavior_emotion, w_pc, w_obs>>
            /\ last' = Call(op, arg, obs, None)
       ELSE /\ face_emotion' = IF op = "face" THEN obs.emotion ELSE face_emotion
            /\ voice_emotion' = IF op = "voice" THEN obs.emotion ELSE voice_emotion
            /\ behavior_emotion' = IF op = "behavior" THEN obs.emotion ELSE behavior_emotion
            /\ last' = Call(op, arg, obs, obs.emotion)
            /\ IF BelowFloor(SourceWeight(obs.source, obs.confidence))
               THEN UNCHANGED <<w_pc, w_obs>>
               ELSE w_pc' = "append_emotion" /\ w_obs' = obs
    /\ UNCHANGED <<emotion_history, valence_history, arousal_history,
                   backend, capture, input_monitor, integrator, r_pc, r_loc, appended>>

\* what the sync thread is fed in the interleaved runs: a strong and a
\* sub-threshold face, a speaking voice, the idle keyboard
ConcFrames ==
    {frame \in FramesOf("deepface") : frame.ok /\ frame.dominant \in {"happy", "sad"}}

ConcVoiceInputs == {AudioFeatures(800, 320, TRUE)}

ConcBehaviorInputs == {Behavior(0, 0, 0, 500)}

SyncCall ==
    \/ \E frame \in ConcFrames :
          SyncUpdate("face", frame, FaceObservation(backend, frame))
    \/ \E audio_features \in ConcVoiceInputs :
          SyncUpdate("voice", audio_features, VoiceObservation(audio_features))
    \/ \E b \in ConcBehaviorInputs :
          SyncUpdate("behavior", b, BehaviorObservation(b))

\* self.emotion_history.append(emotion)
AppendEmotion ==
    /\ w_pc = "append_emotion"
    /\ emotion_history' = DequeAppend(emotion_history, w_obs.emotion, emotion_memory)
    /\ appended' = [appended EXCEPT !.e = @ + 1]
    /\ w_pc' = "append_valence"
    /\ UNCHANGED <<valence_history, arousal_history, face_emotion, voice_emotion,
                   behavior_emotion, backend, capture, input_monitor, integrator, last, w_obs, r_pc, r_loc>>

\* self.valence_history.append(valence)
AppendValence ==
    /\ w_pc = "append_valence"
    /\ valence_history' = DequeAppend(valence_history, w_obs.valence, emotion_memory)
    /\ appended' = [appended EXCEPT !.v = @ + 1]
    /\ w_pc' = "append_arousal"
    /\ UNCHANGED <<emotion_history, arousal_history, face_emotion, voice_emotion,
                   behavior_emotion, backend, capture, input_monitor, integrator, last, w_obs, r_pc, r_loc>>

\* self.arousal_history.append(arousal), and the update returns
AppendArousal ==
    /\ w_pc = "append_arousal"
    /\ arousal_history' = DequeAppend(arousal_history, w_obs.arousal, emotion_memory)
    /\ appended' = [appended EXCEPT !.a = @ + 1]
    /\ w_pc' = "idle"
    /\ w_obs' = NoObservation
    /\ UNCHANGED <<emotion_history, valence_history, face_emotion, voice_emotion,
                   behavior_emotion, backend, capture, input_monitor, integrator, last, r_pc, r_loc>>

ReaderFrame ==
    UNCHANGED <<detector, backend, capture, input_monitor, integrator, last, w_pc, w_obs, appended>>

\* analysis thread: "... if self.valence_history else 0.0"
ReadValenceTest ==
    /\ r_pc = "idle"
    /\ IF valence_history # <<>>
       THEN r_pc' = "valence_sum" /\ r_loc' = NoLocals
       ELSE r_pc' = "arousal_test"
            /\ r_loc' = [NoLocals EXCEPT !.seen.v_sum = appended.v,
                                         !.seen.v_len = appended.v]
    /\ ReaderFrame

\* sum(self.valence_history)
ReadValenceSum ==
    /\ r_pc = "valence_sum"
    /\ r_loc' = [r_loc EXCEPT !.sum = SeqSum(valence_history),
                              !.seen.v_sum = appended.v]
    /\ r_pc' = "valence_len"
    /\ ReaderFrame

\* ... / len(self.valence_history)
ReadValenceLen ==
    /\ r_pc = "valence_len"
    /\ r_loc' = [r_loc EXCEPT !.avg_valence = Frac(r_loc.sum, Len(valence_history)),
                              !.sum = 0,
                              !.seen.v_len = appended.v]
    /\ r_pc' = "arousal_test"
    /\ ReaderFrame

\* "... if self.arousal_history else 0.0"
ReadArousalTest ==
    /\ r_pc = "arousal_test"
    /\ IF arousal_history # <<>>
       THEN r_pc' = "arousal_sum" /\ r_loc' = r_loc
       ELSE r_pc' = "iterate"
            /\ r_loc' = [r_loc EXCEPT !.seen.a_sum = appended.a,
                                      !.seen.a_len = appended.a]
    /\ ReaderFrame

\* sum(self.arousal_history)
ReadArousalSum ==
    /\ r_pc = "arousal_sum"
    /\ r_loc' = [r_loc EXCEPT !.sum = SeqSum(arousal_history),
                              !.seen.a_sum = appended.a]
    /\ r_pc' = "arousal_len"
    /\ ReaderFrame

\* ... / len(self.arousal_history)
ReadArousalLen ==
    /\ r_pc = "arousal_len"
    /\ r_loc' = [r_loc EXCEPT !.avg_arousal = Frac(r_loc.sum, Len(arousal_history)),
                              !.sum = 0,
                              !.seen.a_len = appended.a]
    /\ r_pc' = "iterate"
    /\ ReaderFrame

\* "for emotion in self.emotion_history": the iterator is created; an empty
\* deque ends the loop at once
IterateStart ==
    /\ r_pc = "iterate"
    /\ r_loc' = [r_loc EXCEPT !.seen.e = appended.e, !.seen.e_len = appended.e]
    /\ r_pc' = IF emotion_history = <<>> THEN "build" ELSE "counting"
    /\ ReaderFrame

\* the loop runs to its end; a deque appended to since the iterator was made
\* raises RuntimeError (deque mutated during iteration), which _analysis_loop
\* catches: this call returns nothing
IterateEnd ==
    /\ r_pc = "counting"
    /\ IF appended.e # r_loc.seen.e
       THEN /\ r_loc' = [NoLocals EXCEPT !.raised = TRUE]
            /\ r_pc' = "idle"
       ELSE /\ r_loc' = [r_loc EXCEPT !.items = CountItems(emotion_history, <<>>)]
            /\ r_pc' = "emotion_len"
    /\ ReaderFrame

\* emotion_counts[dominant_emotion] / len(self.emotion_history)
ReadEmotionLen ==
    /\ r_pc = "emotion_len"
    /\ r_loc' = [r_loc EXCEPT !.emotion_len = Len(emotion_history),
                              !.seen.e_len = appended.e]
    /\ r_pc' = "build"
    /\ ReaderFrame

\* the returned dict, with the three last-raw labels read now
BuildResult ==
    /\ r_pc = "build"
    /\ r_loc' = [NoLocals EXCEPT
                    !.seen = r_loc.seen,
                    !.returned = TRUE,
                    !.result = Snapshot(r_loc.avg_valence, r_loc.avg_arousal,
                                        r_loc.items, r_loc.emotion_len,
                                        face_emotion, voice_emotion, behavior_emotion)]
    /\ r_pc' = "idle"
    /\ ReaderFrame

InitConc == Init /\ backend = "deepface"

NextConc ==
    \/ SyncCall
    \/ AppendEmotion
    \/ AppendValence
    \/ AppendArousal
    \/ ReadValenceTest
    \/ ReadValenceSum
    \/ ReadValenceLen
    \/ ReadArousalTest
    \/ ReadArousalSum
    \/ ReadArousalLen
    \/ IterateStart
    \/ IterateEnd
    \/ ReadEmotionLen
    \/ BuildResult

SpecConc == InitConc /\ [][NextConc]_vars

\* C2: every snapshot returned to the analysis thread is computed from the
\* three rolling sequences at one common length: each read that went into it
\* saw the same folds.
C2_NoTornRead ==
    r_loc.returned =>
        /\ r_loc.seen.v_sum = r_loc.seen.v_len
        /\ r_loc.seen.v_len = r_loc.seen.a_sum
        /\ r_loc.seen.a_sum = r_loc.seen.a_len
        /\ r_loc.seen.a_len = r_loc.seen.e
        /\ r_loc.seen.e = r_loc.seen.e_len

(***************************************************************************)
(* The face step of one iteration of MoodSense._data_sync_loop (SpecSync): *)
(* update_face_emotion runs only when the video snapshot reports a face.   *)
(***************************************************************************)
\* a frame in which the video analyzer saw a face and DeepFace's detector
\* finds none: the whole image is scored
FacelessFrame ==
    Frame(TRUE, FALSE, Scores(0, 0, 0, 0, 30, 0, 70), "neutral", "none", "none", "empty")

SyncFrames(build) ==
    IF build = "deepface" THEN FramesOf(build) \cup {FacelessFrame} ELSE FramesOf(build)

\* the part of VideoAnalyzer.get_analysis_results the face step reads
VideoFlags == {[face_detected |-> TRUE], [face_detected |-> FALSE]}

\* "if video_data.get('face_detected', False): update_face_emotion(last_frame)"
sync_face_step(video, frame) ==
    IF Get(video, "face_detected", FALSE)
    THEN update_face_emotion(frame)
    ELSE /\ last' = Call("face_skipped", frame, NoObservation, None)
         /\ UNCHANGED <<detector, backend, capture, input_monitor, integrator, conc>>

NextSync ==
    \/ \E video \in VideoFlags, frame \in SyncFrames(backend) :
          sync_face_step(video, frame)
    \/ \E audio_features \in VoiceInputs : update_voice_emotion(audio_features)
    \/ \E b \in BehaviorInputs : update_behavior_emotion(b)
    \/ get_analysis_results

SpecSync == Init /\ [][NextSync]_vars

\* the face step had no face to work on: the video snapshot reported none, or
\* the build's face detector found none in the frame
NoFaceAvailable ==
    \/ last'.op = "face_skipped"
    \/ last'.op = "face" /\ ~last'.arg.face

\* C11: a face step without a face folds nothing: the rolling history and
\* face_emotion are as they were before the step.
C11_NoFaceNoFold ==
    [][NoFaceAvailable => HistoriesUnchanged /\ face_emotion' = face_emotion]_vars

(***************************************************************************)
(* update_voice_emotion on mappings that lack keys (SpecPartial): one      *)
(* update on a fresh detector per point of the voice grid and per subset   *)
(* of the three keys kept.                                                 *)
(***************************************************************************)
VoiceKeys == {"volume", "pitch", "is_speaking"}

\* the mapping m with only the given keys left in it
Restrict(m, keys) == [k \in keys |-> m[k]]

PartialGrid ==
    {Restrict(audio_features, keys) :
        audio_features \in VoiceGrid, keys \in SUBSET VoiceKeys}

PartialRule ==
    \E audio_features \in PartialGrid :
        last.op = "init" /\ update_voice_emotion(audio_features)

SpecPartial == InitFresh /\ [][PartialRule]_vars

\* the field as the specification defaults it when the key is missing
Defaulted(m, key, default) ==
    CASE key \in DOMAIN m -> m[key]
      [] OTHER -> default

\* what the update is to make of the mapping once the missing fields are
\* volume 0, pitch 0, is_speaking False
StatedVoice(m) ==
    IF Defaulted(m, "is_speaking", FALSE)
    THEN VoiceTable(Defaulted(m, "volume", 0), Defaulted(m, "pitch", 0))
    ELSE Observation("voice", "neutral", 500, 0, 0)

\* C12: update_voice_emotion on a mapping lacking any of volume, pitch,
\* is_speaking returns a label (it does not fail), and observes, records and
\* folds what it would with volume 0, pitch 0, is_speaking False in their
\* place; without is_speaking the label is neutral.
C12_MissingKeysDefault ==
    last.op = "voice" =>
        LET stated == StatedVoice(last.arg)
        IN  /\ last.ret # None
            /\ last.ret = stated.emotion
            /\ last.obs = stated
            /\ voice_emotion = stated.emotion
            /\ emotion_history = <<stated.emotion>>
            /\ valence_history = <<stated.valence>>
            /\ arousal_history = <<stated.arousal>>
            /\ ("is_speaking" \notin DOMAIN last.arg => last.ret = "neutral")

\* a loud, high-pitched mapping without is_speaking has been taken as silence
C12_Witness ==
    /\ last.op = "voice"
    /\ DOMAIN last.arg = {"volume", "pitch"}
    /\ last.arg.volume = 800
    /\ last.arg.pitch = 320
    /\ last.ret = "neutral"
    /\ valence_history = <<0>>

(***************************************************************************)
(* The operations of the data integrator.  The five setters are called by  *)
(* the sync thread; _integration_loop runs on a thread of its own, one     *)
(* action per step of a tick; start() and stop() are called by the threads *)
(* of Callers.  No lock guards any field: the threads interleave between   *)
(* any two of the actions below.                                           *)
(***************************************************************************)
\* what a setter leaves alone besides the other four snapshots
SetterFrame(op, data) ==
    /\ calls.update < MaxUpdates
    /\ calls' = [calls EXCEPT !.update = @ + 1]
    /\ last' = Call(op, data, NoObservation, None)
    /\ UNCHANGED <<backend, capture, input_monitor, detector, conc, running, integrated_data, scores,
                   data_history, result_queue, saved, threads, clock>>

\* variant: the given mapping is merged into the stored snapshot
update_video_data_merging(data) ==
    /\ video_data' = Update(video_data, data)
    /\ UNCHANGED <<audio_data, environment_data, emotion_data, input_data>>
    /\ SetterFrame("update_video_data", data)

update_video_data(data) ==
    /\ video_data' = data
    /\ UNCHANGED <<audio_data, environment_data, emotion_data, input_data>>
    /\ SetterFrame("update_video_data", data)

update_audio_data(data) ==
    /\ audio_data' = data
    /\ UNCHANGED <<video_data, environment_data, emotion_data, input_data>>
    /\ SetterFrame("update_audio_data", data)

update_environment_data(data) ==
    /\ environment_data' = data
    /\ UNCHANGED <<video_data, audio_data, emotion_data, input_data>>
    /\ SetterFrame("update_environment_data", data)

update_emotion_data(data) ==
    /\ emotion_data' = data
    /\ UNCHANGED <<video_data, audio_data, environment_data, input_data>>
    /\ SetterFrame("update_emotion_data", data)

update_input_data(data) ==
    /\ input_data' = data
    /\ UNCHANGED <<video_data, audio_data, environment_data, emotion_data>>
    /\ SetterFrame("update_input_data", data)

\* what the steps of the integration loop leave alone
LoopFrame ==
    UNCHANGED <<backend, capture, input_monitor, detector, conc, last, running, integration_thread,
                callers, calls>>

\* variant: "while True", the flag is not looked at
LoopTest_unchecked(t) ==
    /\ loops[t].pc = "test"
    /\ clock < MaxTicks
    /\ loops' = [loops EXCEPT ![t].pc = "nest", ![t].computed = <<>>]
    /\ UNCHANGED <<modalities, integrated_data, scores, data_history,
                   result_queue, saved, clock>>
    /\ LoopFrame

\* line 289, "while self.running": on to the next tick, or out of the loop
LoopTest(t) ==
    /\ loops[t].pc = "test"
    /\ IF running
       THEN /\ clock < MaxTicks
            /\ loops' = [loops EXCEPT ![t].pc = "nest", ![t].computed = <<>>]
       ELSE loops' = [loops EXCEPT ![t].pc = "exited"]
    /\ UNCHANGED <<modalities, integrated_data, scores, data_history,
                   result_queue, saved, clock>>
    /\ LoopFrame

\* _integrate_data, lines 160-166: the five stored snapshots go into a new dict
MergeNest(t) ==
    /\ loops[t].pc = "nest"
    /\ loops' = [loops EXCEPT
                    ![t].pc = "hoist",
                    ![t].local = Nested(video_data, audio_data, environment_data,
                                        emotion_data, input_data)]
    /\ UNCHANGED <<modalities, integrated_data, scores, data_history,
                   result_queue, saved, clock>>
    /\ LoopFrame

\* _integrate_data, lines 168-191, and the assignment of line 292.  The
\* nested video snapshot is the object the setter stored, not a copy: line
\* 186 writes into it, wherever else it is held (snapshots are told apart
\* by their contents).
MergeHoist(t) ==
    /\ loops[t].pc = "hoist"
    /\ LET local == loops[t].local
           result == Integrated(local, video_data, audio_data, emotion_data, input_data)
       IN  /\ integrated_data' = result
           /\ video_data' = IF video_data = local.video THEN result.video ELSE video_data
           /\ result_queue' =
                 [i \in DOMAIN result_queue |->
                     IF result_queue[i].video = local.video
                     THEN [result_queue[i] EXCEPT !["video"] = result.video]
                     ELSE result_queue[i]]
           /\ loops' = [loops EXCEPT ![t].pc = "score", ![t].local = result]
    /\ UNCHANGED <<audio_data, environment_data, emotion_data, input_data,
                   scores, data_history, saved, clock>>
    /\ LoopFrame

\* _calculate_scores: brightness and noise from the merged snapshot, the
\* rest from the stored snapshots as they are now
CalculateScores(t) ==
    /\ loops[t].pc = "score"
    /\ LET brightness == Get(integrated_data, "brightness", 500)
           noise_level == Get(integrated_data, "noise_level", 0)
           motion_level == Get(video_data, "motion_level", 0)
           typing_speed == Get(input_data, "typing_speed", 0)
           focus_level == Get(input_data, "focus_level", 500)
           valence == Get(emotion_data, "valence", 0)
           environment == EnvironmentScore(brightness, noise_level)
           productivity == ProductivityScore(focus_level, typing_speed)
           wellbeing == WellbeingScore(valence, motion_level)
       IN  /\ environment_score' = environment
           /\ productivity_score' = productivity
           /\ mood_score' = valence
           /\ wellbeing_score' = wellbeing
           /\ loops' = [loops EXCEPT
                           ![t].pc = "append",
                           ![t].computed = <<productivity, wellbeing, valence, environment>>]
    /\ UNCHANGED <<modalities, integrated_data, data_history, result_queue, saved, clock>>
    /\ LoopFrame

\* _append_to_history: one row, stamped with the time of the append
AppendToHistory(t) ==
    /\ loops[t].pc = "append"
    /\ clock' = clock + 1
    /\ data_history' =
          Appended(data_history,
                   DataPoint(clock + 1, integrated_data, video_data, emotion_data,
                             input_data, productivity_score, wellbeing_score,
                             mood_score, environment_score),
                   history_length)
    /\ loops' = [loops EXCEPT ![t].pc = "publish"]
    /\ UNCHANGED <<modalities, integrated_data, scores, result_queue, saved>>
    /\ LoopFrame

\* lines 301-314: get_analysis_results, and its result put on the queue
Publish(t) ==
    /\ loops[t].pc = "publish"
    /\ result_queue' =
          QueuePut(result_queue,
                   IntegratorResults(video_data, audio_data, environment_data,
                                     emotion_data, input_data, productivity_score,
                                     wellbeing_score, mood_score, environment_score,
                                     clock),
                   queue_maxsize)
    /\ loops' = [loops EXCEPT ![t].pc = "persist"]
    /\ UNCHANGED <<modalities, integrated_data, scores, data_history, saved, clock>>
    /\ LoopFrame

\* what a call of _save_data can come to: both files written, to_csv
\* raising, or the CSV written and the writing of the snapshot raising
SaveOutcomes == {"written", "csv_failed", "json_failed"}

\* _save_data: with no row there is nothing to do; an exception is caught
\* and logged (lines 280-281)
SavedAfter(outcome) ==
    IF data_history = <<>>
    THEN [saved EXCEPT !.calls = @ + 1, !.failed = FALSE]
    ELSE [rows |-> IF outcome = "csv_failed" THEN saved.rows ELSE data_history,
          calls |-> saved.calls + 1,
          failed |-> outcome # "written"]

\* the time.time() of lines 285 and 318, in sleeps of update_interval
CurrentTime == clock

\* variant: a save that fails ends the loop
Persist_failureEnds(t) ==
    /\ loops[t].pc = "persist"
    /\ IF CurrentTime - loops[t].last_save_time > save_interval
       THEN /\ \E outcome \in SaveOutcomes : saved' = SavedAfter(outcome)
            /\ loops' = [loops EXCEPT ![t].pc = IF saved'.failed THEN "exited" ELSE "test",
                                      ![t].last_save_time = CurrentTime,
                                      ![t].slept = update_interval]
       ELSE /\ saved' = saved
            /\ loops' = [loops EXCEPT ![t].pc = "test",
                                      ![t].slept = update_interval]
    /\ UNCHANGED <<modalities, integrated_data, scores, data_history,
                   result_queue, clock>>
    /\ LoopFrame

\* lines 317-323: _save_data when more than save_interval has passed since
\* last_save_time, then the sleep of update_interval
Persist(t) ==
    /\ loops[t].pc = "persist"
    /\ IF CurrentTime - loops[t].last_save_time > save_interval
       THEN /\ \E outcome \in SaveOutcomes : saved' = SavedAfter(outcome)
            /\ loops' = [loops EXCEPT ![t].pc = "test",
                                      ![t].last_save_time = CurrentTime,
                                      ![t].slept = update_interval]
       ELSE /\ saved' = saved
            /\ loops' = [loops EXCEPT ![t].pc = "test",
                                      ![t].slept = update_interval]
    /\ UNCHANGED <<modalities, integrated_data, scores, data_history,
                   result_queue, clock>>
    /\ LoopFrame

\* variant: no handler, the exception ends the thread of the loop
TickRaises_ends(t) ==
    /\ loops[t].pc \in {"nest", "hoist", "score", "append", "publish"}
    /\ loops' = [loops EXCEPT ![t].pc = "exited"]
    /\ UNCHANGED <<modalities, integrated_data, scores, data_history,
                   result_queue, saved, clock>>
    /\ LoopFrame

\* lines 325-328: a statement of the tick raises; the handler logs, sleeps
\* 0.1 s and the loop goes back to its test
TickRaises(t) ==
    /\ loops[t].pc \in {"nest", "hoist", "score", "append", "publish"}
    /\ loops' = [loops EXCEPT ![t].pc = "test", ![t].slept = error_sleep]
    /\ UNCHANGED <<modalities, integrated_data, scores, data_history,
                   result_queue, saved, clock>>
    /\ LoopFrame

LoopStep(t) ==
    \/ LoopTest(t)
    \/ MergeNest(t)
    \/ MergeHoist(t)
    \/ CalculateScores(t)
    \/ AppendToHistory(t)
    \/ Publish(t)
    \/ Persist(t)

\* what start() and stop() leave alone
CallFrame ==
    UNCHANGED <<backend, capture, input_monitor, detector, conc, last, modalities, integrated_data,
                scores, data_history, result_queue, clock>>

\* start(), line 64: "if self.running: return"
StartTest(c) ==
    /\ callers[c] = "idle"
    /\ calls' = [calls EXCEPT !.start = @ + 1]
    /\ callers' = [callers EXCEPT ![c] = IF running THEN "idle" ELSE "start_set"]
    /\ UNCHANGED <<running, integration_thread, loops, saved>>
    /\ CallFrame

\* start(), line 69: self.running = True
StartSet(c) ==
    /\ callers[c] = "start_set"
    /\ running' = TRUE
    /\ callers' = [callers EXCEPT ![c] = "start_spawn"]
    /\ UNCHANGED <<integration_thread, loops, saved, calls>>
    /\ CallFrame

\* start(), lines 72-73: a new thread on _integration_loop
StartSpawn(c) ==
    /\ callers[c] = "start_spawn"
    /\ loops' = Append(loops, [NewLoop EXCEPT !.last_save_time = CurrentTime])
    /\ integration_thread' = Len(loops) + 1
    /\ callers' = [callers EXCEPT ![c] = "idle"]
    /\ UNCHANGED <<running, saved, calls>>
    /\ CallFrame

\* stop(), line 79: "if not self.running: return"
StopTest(c) ==
    /\ callers[c] = "idle"
    /\ calls' = [calls EXCEPT !.stop = @ + 1]
    /\ callers' = [callers EXCEPT ![c] = IF ~running THEN "idle" ELSE "stop_flag"]
    /\ UNCHANGED <<running, integration_thread, loops, saved>>
    /\ CallFrame

\* stop(), line 83: self.running = False
StopFlag(c) ==
    /\ callers[c] = "stop_flag"
    /\ running' = FALSE
    /\ callers' = [callers EXCEPT ![c] = "stop_join"]
    /\ UNCHANGED <<integration_thread, loops, saved, calls>>
    /\ CallFrame

\* variant: stop() returns after the join without saving
StopJoin_unsaved(c) ==
    /\ callers[c] = "stop_join"
    /\ callers' = [callers EXCEPT ![c] = "idle"]
    /\ UNCHANGED <<running, integration_thread, loops, calls, saved>>
    /\ CallFrame

\* stop(), lines 86-90: join(timeout=1.0) returns, the thread having left
\* the loop or the second having passed, and _save_data runs
StopJoin(c) ==
    /\ callers[c] = "stop_join"
    /\ \E outcome \in SaveOutcomes : saved' = SavedAfter(outcome)
    /\ callers' = [callers EXCEPT ![c] = "idle"]
    /\ UNCHANGED <<running, integration_thread, loops, calls>>
    /\ CallFrame

(***************************************************************************)
(* The lifecycle (SpecLife): the threads of Callers call start() and       *)
(* stop() in any order, one statement at a time, while the integration     *)
(* loops run their ticks on the empty snapshots.                           *)
(***************************************************************************)
NextLife ==
    \/ \E c \in Callers : calls.start + calls.stop < MaxCalls /\ StartTest(c)
    \/ \E c \in Callers : calls.start + calls.stop < MaxCalls /\ StopTest(c)
    \/ \E c \in Callers : StartSet(c)
    \/ \E c \in Callers : StartSpawn(c)
    \/ \E c \in Callers : StopFlag(c)
    \/ \E c \in Callers : StopJoin(c)
    \/ \E t \in DOMAIN loops : LoopStep(t)

SpecLife == InitFresh /\ [][NextLife]_vars

\* the integration loops that are inside a tick
Ticking ==
    {t \in DOMAIN loops :
        loops[t].pc \in {"nest", "hoist", "score", "append", "publish", "persist"}}

\* a call of start() that found the integrator running changed nothing
StartOnRunningIsNoOp ==
    calls'.start # calls.start /\ running
        => UNCHANGED <<running, threads, saved, data_history, integrated_data, scores>>

\* a call of stop() that found the integrator not running changed nothing
StopOnIdleIsNoOp ==
    calls'.stop # calls.stop /\ ~running
        => UNCHANGED <<running, threads, saved, data_history, integrated_data, scores>>

\* C13: whatever the order and interleaving of the start() and stop() calls,
\* start() on a running integrator and stop() on one that is not running
\* change nothing, and at no time is more than one integration loop inside
\* a tick.
C13_Lifecycle ==
    /\ [](Cardinality(Ticking) <= 1)
    /\ [][StartOnRunningIsNoOp /\ StopOnIdleIsNoOp]_vars

(***************************************************************************)
(* The running integrator (SpecInt): the main thread of MoodSense starts   *)
(* it once, the sync thread calls the setters, and the integration loop    *)
(* runs its ticks in between.                                              *)
(***************************************************************************)
\* snapshots the setters are given: a video snapshot with and without an
\* embedded frame, and one snapshot of each other modality
VideoInputs ==
    {[brightness |-> 500, motion_level |-> 500, face_detected |-> TRUE,
      frame_data |-> "frame-1"],
     [brightness |-> 1000, motion_level |-> 0, face_detected |-> FALSE]}

AudioInputs ==
    {[volume |-> 800, is_speaking |-> TRUE, pitch |-> 320, noise_level |-> 1000]}

EnvironmentInputs ==
    {[brightness |-> 500, noise_level |-> 1000, motion_level |-> 500,
      environment_type |-> "noisy"]}

EmotionInputs ==
    {[emotion |-> "happy", valence |-> 800, arousal |-> 500, face_emotion |-> "happy"]}

InputInputs ==
    {[typing_speed |-> 350, typing_errors |-> 100, focus_level |-> 900]}

NextInt ==
    \/ calls.start = 0 /\ StartTest("main")
    \/ StartSet("main")
    \/ StartSpawn("main")
    \/ \E data \in VideoInputs : update_video_data(data)
    \/ \E data \in AudioInputs : update_audio_data(data)
    \/ \E data \in EnvironmentInputs : update_environment_data(data)
    \/ \E data \in EmotionInputs : update_emotion_data(data)
    \/ \E data \in InputInputs : update_input_data(data)
    \/ \E t \in DOMAIN loops : LoopStep(t)

SpecInt == InitFresh /\ [][NextInt]_vars

\* the order of the steps of a tick
TickOrder ==
    {<<"test", "nest">>, <<"test", "exited">>, <<"nest", "hoist">>,
     <<"hoist", "score">>, <<"score", "append">>, <<"append", "publish">>,
     <<"publish", "persist">>, <<"persist", "test">>}

\* the step is one of loop t that takes it from pc to pc2
Moves(t, pc, pc2) ==
    t \in DOMAIN loops /\ loops[t].pc = pc /\ loops'[t].pc = pc2

\* the loops go through merge, score, append, publish, persist in this order,
\* and only the step in turn writes what is its to write
C14_InOrder ==
    /\ \A t \in DOMAIN loops :
          loops'[t].pc # loops[t].pc => <<loops[t].pc, loops'[t].pc>> \in TickOrder
    /\ integrated_data' # integrated_data => \E t \in DOMAIN loops : Moves(t, "hoist", "score")
    /\ scores' # scores => \E t \in DOMAIN loops : Moves(t, "score", "append")
    /\ data_history' # data_history => \E t \in DOMAIN loops : Moves(t, "append", "publish")
    /\ saved' # saved => \E t \in DOMAIN loops : Moves(t, "persist", "test")

\* the append step of a tick adds one row, the last of the history, which
\* holds the four scores the tick has computed
C14_OneRow ==
    \A t \in DOMAIN loops :
        Moves(t, "append", "publish") =>
            LET row == data_history'[Len(data_history')]
            IN  /\ Len(data_history') = Min(Len(data_history) + 1, history_length)
                /\ \A i \in 1..(Len(data_history') - 1) :
                      data_history'[i] = data_history[i + Len(data_history) + 1 - Len(data_history')]
                /\ row.timestamp = clock'
                /\ <<row.productivity_score, row.wellbeing_score,
                     row.mood_score, row.environment_score>> = loops[t].computed

\* C14: while running, every tick does merge, score, append, persist in
\* that order, and appends exactly one row, which carries the four scores
\* computed in that tick.
C14_TickOrder == [][C14_InOrder /\ C14_OneRow]_vars

\* a tick on set snapshots has appended its row to a full history and saved it
C14_Witness ==
    /\ Len(data_history) = history_length
    /\ clock > history_length
    /\ data_history[Len(data_history)].timestamp = clock
    /\ data_history[Len(data_history)].productivity_score = 9300
    /\ saved.rows = data_history
    /\ loops[1].pc = "test"
    /\ running

\* the step is a call of one of the five setters
SetterCall == calls'.update # calls.update

\* the snapshot variable a setter writes
Own(op) ==
    CASE op = "update_video_data" -> <<video_data, video_data'>>
      [] op = "update_audio_data" -> <<audio_data, audio_data'>>
      [] op = "update_environment_data" -> <<environment_data, environment_data'>>
      [] op = "update_emotion_data" -> <<emotion_data, emotion_data'>>
      [] op = "update_input_data" -> <<input_data, input_data'>>

SetterOps ==
    {"update_video_data", "update_audio_data", "update_environment_data",
     "update_emotion_data", "update_input_data"}

\* C15: a setter makes the given mapping the snapshot of its own modality
\* and leaves the other four snapshots, integrated_data, the four scores
\* and data_history as they were.
C15_SetterReplacesOwn ==
    [][SetterCall =>
         /\ last'.op \in SetterOps
         /\ Own(last'.op)[2] = last'.arg
         /\ \A op \in SetterOps \ {last'.op} : Own(op)[2] = Own(op)[1]
         /\ UNCHANGED <<integrated_data, scores, data_history>>]_vars

\* the second video snapshot has replaced the first, whose frame is gone,
\* after a tick had merged and scored the first
C15_Witness ==
    /\ last.op = "update_video_data"
    /\ calls.update = MaxUpdates
    /\ "frame_data" \notin DOMAIN video_data
    /\ video_data = last.arg
    /\ data_history # <<>>
    /\ "video" \in DOMAIN integrated_data
    /\ "frame_data" \in DOMAIN integrated_data.video

\* loop t completes a merge: lines 168-191 and the assignment of line 292
Merges(t) == Moves(t, "hoist", "score")

\* the video snapshot held is the given one, but for the frame passed on
SameButFrame(held, video) ==
    /\ DOMAIN held \ {"frame_data"} = DOMAIN video \ {"frame_data"}
    /\ \A k \in DOMAIN video \ {"frame_data"} : held[k] = video[k]

\* C16: the snapshot a merge produces holds, under video, audio,
\* environment, emotion and input, the snapshot of that modality the merge
\* found stored (the one last passed to the setter), next to the hoisted
\* fields.
C16_NestedSnapshots ==
    [][\A t \in DOMAIN loops :
          /\ Moves(t, "nest", "hoist") =>
                loops'[t].local = [video |-> video_data, audio |-> audio_data,
                                   environment |-> environment_data,
                                   emotion |-> emotion_data, input |-> input_data]
          /\ Merges(t) =>
                /\ SameButFrame(integrated_data'.video, loops[t].local.video)
                /\ integrated_data'.audio = loops[t].local.audio
                /\ integrated_data'.environment = loops[t].local.environment
                /\ integrated_data'.emotion = loops[t].local.emotion
                /\ integrated_data'.input = loops[t].local.input
                /\ {"brightness", "noise_level", "typing_speed", "focus_level"}
                      \subseteq DOMAIN integrated_data']_vars

\* C17: a merge changes none of the five stored snapshots, and when the
\* stored video snapshot holds frame_data the merged snapshot holds the same
\* value under video.frame_data.
C17_FramePassThrough ==
    [][\A t \in DOMAIN loops :
          /\ loops'[t].pc # loops[t].pc
             /\ loops[t].pc \in {"nest", "hoist", "publish"} => UNCHANGED modalities
          /\ Merges(t) /\ "frame_data" \in DOMAIN video_data =>
                Get(integrated_data'.video, "frame_data", None) = video_data["frame_data"]]_vars

\* the video snapshot was replaced by one with a frame in the middle of a
\* merge: the merged snapshot holds the earlier snapshot and the new frame
C17_Witness ==
    /\ loops # <<>>
    /\ loops[1].pc = "score"
    /\ video_data \in VideoInputs
    /\ "frame_data" \in DOMAIN video_data
    /\ "video" \in DOMAIN integrated_data
    /\ "brightness" \in DOMAIN integrated_data.video
    /\ integrated_data.video.brightness = 1000
    /\ Get(integrated_data.video, "frame_data", None) = video_data["frame_data"]


(***************************************************************************)
(* The scores of a tick, for snapshots over the documented ranges           *)
(***************************************************************************)

\* levels in [0, 1], in thousandths
Levels == {0, 250, 500, 750, 1000}

\* update_video_data before the first tick, or the {} of __init__
ScoreVideos ==
    {EmptyDict} \cup {[brightness |-> b, motion_level |-> m] :
                         b \in Levels, m \in {0, 250, 500, 1000}}

\* update_audio_data before the first tick, or the {} of __init__
ScoreAudios == {EmptyDict} \cup {[noise_level |-> n] : n \in {0, 500, 1000}}

\* update_emotion_data before the first tick, or the {} of __init__
ScoreEmotions ==
    {EmptyDict} \cup {[emotion |-> "neutral", valence |-> v] :
                         v \in {-1000, -500, 0, 500, 1000}}

\* update_input_data before the first tick, or the {} of __init__;
\* typing_speed in characters per minute
ScoreInputs ==
    {EmptyDict} \cup {[typing_speed |-> s, focus_level |-> f] :
                         s \in {0, 150, 300, 450}, f \in {0, 500, 1000}}

\* an integrator whose setters have stored snapshots before start()
InitScore ==
    /\ InitDetector
    /\ backend = "deepface"
    /\ video_data \in ScoreVideos
    /\ audio_data \in ScoreAudios
    /\ environment_data = EmptyDict
    /\ emotion_data \in ScoreEmotions
    /\ input_data \in ScoreInputs
    /\ InitIntegratorState
    /\ InitCapture
    /\ InitMonitor

NextScore ==
    \/ calls.start = 0 /\ StartTest("main")
    \/ StartSet("main")
    \/ StartSpawn("main")
    \/ \E t \in DOMAIN loops : LoopStep(t)

SpecScore == InitScore /\ [][NextScore]_vars

\* loop t completes _calculate_scores
StoresScores(t) == Moves(t, "score", "append")

\* loop t has stored the scores of the tick it is in
Scored(t) == loops[t].pc = "append"

\* C18: the environment_score a tick stores is
\* 0.6*(1 - 2*|brightness - 0.5|) + 0.4*(1 - noise_level) of the brightness
\* and noise_level hoisted in that tick: 1.0 for 0.5 and 0.0, 0.0 for 1.0 and
\* 1.0, and the same for brightness b and 1 - b.
C18_EnvironmentScore ==
    [][\A t \in DOMAIN loops : StoresScores(t) =>
          LET b == integrated_data.brightness
              n == integrated_data.noise_level
          IN  /\ environment_score' = 6 * (1000 - 2 * Abs(b - 500)) + 4 * (1000 - n)
              /\ b = 500 /\ n = 0 => environment_score' = 10000
              /\ b = 1000 /\ n = 1000 => environment_score' = 0
              /\ environment_score' = EnvironmentScore(1000 - b, n)]_vars

C18_Witness ==
    /\ loops # <<>>
    /\ Scored(1)
    /\ integrated_data.brightness = 500
    /\ integrated_data.noise_level = 0
    /\ environment_score = 10000


\* the valence and the motion level _calculate_scores reads (lines 198, 201)
ReadValence == Get(emotion_data, "valence", 0)
ReadMotion == Get(video_data, "motion_level", 0)

\* C19, as stated: a tick with valence 0 and motion_level 0.5 stores
\* wellbeing_score 0.5, computed as
\* 0.6*((valence+1)/2) + 0.4*(1 - 2*|motion_level - 0.5|).
C19_WellbeingMidpoint ==
    [][\A t \in DOMAIN loops : StoresScores(t) =>
          /\ wellbeing_score' =
                3 * (ReadValence + 1000) + 4 * (1000 - 2 * Abs(ReadMotion - 500))
          /\ ReadValence = 0 /\ ReadMotion = 500 => wellbeing_score' = 5000]_vars

\* C19, amended: a tick stores wellbeing_score
\* 0.6*((valence+1)/2) + 0.4*(1 - 2*|motion_level - 0.5|), which for valence 0
\* and motion_level 0.5 is 0.7.
C19_WellbeingAtNeutral ==
    [][\A t \in DOMAIN loops : StoresScores(t) =>
          /\ wellbeing_score' =
                3 * (ReadValence + 1000) + 4 * (1000 - 2 * Abs(ReadMotion - 500))
          /\ ReadValence = 0 /\ ReadMotion = 500 => wellbeing_score' = 7000]_vars

C19_Witness ==
    /\ loops # <<>>
    /\ Scored(1)
    /\ "valence" \in DOMAIN emotion_data
    /\ ReadValence = 0
    /\ ReadMotion = 500
    /\ wellbeing_score = 7000

\* C20: over the documented input ranges environment_score,
\* productivity_score and wellbeing_score stay in [0, 1] and mood_score in
\* [-1, 1], and a typing_speed above 300 gives the productivity_score that
\* typing_speed 300 gives.
C20_ScoreRanges ==
    /\ [](/\ environment_score \in 0..10000
          /\ productivity_score \in 0..10000
          /\ wellbeing_score \in 0..10000
          /\ mood_score \in -1000..1000)
    /\ [][\A t \in DOMAIN loops :
             StoresScores(t) /\ Get(input_data, "typing_speed", 0) > 300 =>
                productivity_score' = 7 * input_data.focus_level + 3 * 1000]_vars

C20_Witness ==
    /\ loops # <<>>
    /\ Scored(1)
    /\ Get(input_data, "typing_speed", 0) = 450
    /\ input_data.focus_level = 1000
    /\ productivity_score = 10000
    /\ ReadValence = -1000
    /\ mood_score = -1000
    /\ ReadMotion = 0
    /\ wellbeing_score = 0


get_latest_data ==
    /\ last' = Call("get_latest_data", None, NoObservation, integrated_data)
    /\ UNCHANGED <<backend, capture, input_monitor, detector, conc, integrator>>

NextRead ==
    \/ calls.start = 0 /\ StartTest("main")
    \/ StartSet("main")
    \/ StartSpawn("main")
    \/ \E data \in VideoInputs : update_video_data(data)
    \/ \E data \in InputInputs : update_input_data(data)
    \/ \E t \in DOMAIN loops : LoopStep(t)
    \/ get_latest_data

SpecRead == InitFresh /\ [][NextRead]_vars

\* the step is a call of get_latest_data between two ticks, one tick at
\* least being complete
ReadsAfterTick ==
    /\ last' # last
    /\ last'.op = "get_latest_data"
    /\ clock > 0
    /\ loops[1].pc = "test"

ScoreKeys == {"environment_score", "productivity_score", "mood_score", "wellbeing_score"}

\* C22: once a tick is complete get_latest_data returns the snapshot that
\* tick merged together with the four scores that tick computed.
C22_LatestHoldsScores ==
    [][ReadsAfterTick =>
          /\ \A k \in DOMAIN integrated_data :
                k \in DOMAIN last'.ret /\ last'.ret[k] = integrated_data[k]
          /\ ScoreKeys \subseteq DOMAIN last'.ret
          /\ last'.ret.environment_score = environment_score
          /\ last'.ret.productivity_score = productivity_score
          /\ last'.ret.mood_score = mood_score
          /\ last'.ret.wellbeing_score = wellbeing_score]_vars


(***************************************************************************)
(* Stopping (SpecStop): the main thread of MoodSense calls start() and     *)
(* stop() one after the other, in any order, while the loops tick.         *)
(***************************************************************************)
NextStop ==
    \/ calls.start + calls.stop < MaxCalls /\ StartTest("main")
    \/ calls.start + calls.stop < MaxCalls /\ StopTest("main")
    \/ StartSet("main")
    \/ StartSpawn("main")
    \/ StopFlag("main")
    \/ StopJoin("main")
    \/ \E t \in DOMAIN loops : LoopStep(t)

SpecStop == InitFresh /\ [][NextStop]_vars

\* caller c returns from stop() at line 80, the integrator not running
StopReturnsEarly(c) ==
    /\ callers[c] = "idle"
    /\ callers'[c] = "idle"
    /\ calls'.stop # calls.stop

\* caller c returns from stop() at its end
StopReturns(c) == callers[c] = "stop_join" /\ callers'[c] = "idle"

\* caller c does a step of stop() after which stop() goes on
StopGoesOn(c) == callers'[c] # callers[c] /\ callers'[c] \in {"stop_flag", "stop_join"}

\* C23, as stated: every call of stop() invokes _save_data exactly once
\* before it returns, whatever the periodic saves of the loop.
C23_EveryStopSaves ==
    [][\A c \in Callers :
          /\ StopReturnsEarly(c) \/ StopReturns(c) => saved'.calls = saved.calls + 1
          /\ StopGoesOn(c) => saved' = saved]_vars

\* C23, amended: a call of stop() that finds the integrator running invokes
\* _save_data exactly once, as its last statement, whatever the periodic
\* saves of the loop; a call that finds it not running returns without.
C23_RunningStopSaves ==
    [][\A c \in Callers :
          /\ StopReturns(c) => saved'.calls = saved.calls + 1
          /\ StopReturnsEarly(c) => saved' = saved
          /\ StopGoesOn(c) => saved' = saved]_vars

\* stop() has saved the rows of a loop whose own saving was not yet due
C23_Witness ==
    /\ calls.stop = 1
    /\ \A c \in Callers : callers[c] = "idle"
    /\ ~running
    /\ saved.calls = 1
    /\ saved.rows # <<>>
    /\ clock <= save_interval


\* the step is a call of _save_data in which writing raised
SaveFails == saved'.calls = saved.calls + 1 /\ saved'.failed

\* loop t ends a tick: the steps of lines 317-323
Persists(t) == Moves(t, "persist", "test")

\* C24: a _save_data that fails, in a tick or in stop(), raises nothing to
\* its caller and leaves data_history and integrated_data as they were; the
\* loop goes on to its sleep and its next test, and saves again once the
\* next save_interval has passed.
C24_SaveFailureSwallowed ==
    [][/\ SaveFails =>
             /\ data_history' = data_history
             /\ integrated_data' = integrated_data
             /\ \/ \E c \in Callers : StopReturns(c) /\ UNCHANGED loops
                \/ \E t \in DOMAIN loops :
                      /\ Persists(t)
                      /\ loops'[t].slept = update_interval
                      /\ loops'[t].last_save_time = CurrentTime
       /\ \A t \in DOMAIN loops :
             Persists(t) =>
                IF CurrentTime - loops[t].last_save_time > save_interval
                THEN saved'.calls = saved.calls + 1
                ELSE saved' = saved]_vars

\* the first periodic save failed, the loop went on, and a save interval
\* later the second one was attempted
C24_Witness ==
    /\ calls.stop = 0
    /\ loops # <<>>
    /\ loops[1].pc = "test"
    /\ saved.calls = 2
    /\ saved.rows = <<>>
    /\ data_history # <<>>
    /\ loops[1].last_save_time = 2 * (save_interval + 1)


(***************************************************************************)
(* Failing ticks (SpecFault): any statement of a tick of the one loop may  *)
(* raise; FairFault adds that the loop thread is scheduled.                *)
(***************************************************************************)
NextFault ==
    \/ calls.start = 0 /\ StartTest("main")
    \/ StartSet("main")
    \/ StartSpawn("main")
    \/ \E data \in InputInputs : update_input_data(data)
    \/ \E t \in DOMAIN loops : LoopStep(t)
    \/ \E t \in DOMAIN loops : TickRaises(t)

SpecFault == InitFresh /\ [][NextFault]_vars

\* the thread of the loop gets to run; nothing obliges a statement to raise
FairFault == SpecFault /\ WF_vars(\E t \in DOMAIN loops : LoopStep(t))

\* loop t leaves a tick through the exception handler
Raises(t) ==
    /\ loops[t].pc \in {"nest", "hoist", "score", "append", "publish"}
    /\ loops'[t].pc = "test"

\* C25: the sleep the integration loop takes after an iteration that raised
\* is strictly longer than its tick interval.
C25_BackoffLonger ==
    [][\A t \in DOMAIN loops : Raises(t) => loops'[t].slept > update_interval]_vars


\* loop t is back at its test after a tick that raised
Raised(t) == loops[t].pc = "test" /\ loops[t].slept = error_sleep

\* C26: a statement of a tick that raises does not end the loop and loses
\* no row of data_history, and with running still true the loop begins
\* another tick.
C26_RaiseKeepsLoop ==
    /\ [][\A t \in DOMAIN loops :
             Raises(t) => data_history' = data_history /\ running']_vars
    /\ [](\A t \in DOMAIN loops : loops[t].pc = "exited" => ~running)
    /\ [](loops # <<>> /\ Raised(1) /\ clock < MaxTicks =>
             <>(loops # <<>> /\ loops[1].pc = "nest"))

\* a tick raised after an earlier tick had appended its row, and the loop
\* has begun the next tick with the row still there
C26_Witness ==
    /\ loops # <<>>
    /\ loops[1].pc = "nest"
    /\ loops[1].slept = error_sleep
    /\ clock = 1
    /\ Len(data_history) = 1
    /\ data_history[1].timestamp = 1


(***************************************************************************)
(* One run of MoodSense (SpecHalt): start() once, stop() afterwards or     *)
(* before, and no start() again; FairHalt adds that the loop thread is     *)
(* scheduled.                                                              *)
(***************************************************************************)
NextHalt ==
    \/ calls.start = 0 /\ StartTest("main")
    \/ calls.start + calls.stop < MaxCalls /\ StopTest("main")
    \/ StartSet("main")
    \/ StartSpawn("main")
    \/ StopFlag("main")
    \/ StopJoin("main")
    \/ \E data \in InputInputs : update_input_data(data)
    \/ \E t \in DOMAIN loops : LoopStep(t)

SpecHalt == InitFresh /\ [][NextHalt]_vars

FairHalt == SpecHalt /\ WF_vars(\E t \in DOMAIN loops : LoopStep(t))

\* loop t has left _integration_loop
Exited(t) == t \in DOMAIN loops /\ loops[t].pc = "exited"

\* C27: once stop() has cleared the running flag, start() not being called
\* again, the integration loop leaves its loop; a loop that finds the flag
\* cleared at its test leaves at once and begins no tick afterwards.
C27_CooperativeStop ==
    /\ [](loops # <<>> /\ ~running => <>Exited(1))
    /\ [][\A t \in DOMAIN loops :
             /\ loops[t].pc = "test" /\ loops'[t].pc # "test" /\ ~running =>
                   loops'[t].pc = "exited"
             /\ loops[t].pc = "exited" => loops'[t].pc = "exited"]_vars

\* a loop that ticked has left after stop() cleared the flag
C27_Witness ==
    /\ Exited(1)
    /\ ~running
    /\ calls.start = 1
    /\ calls.stop = 1
    /\ clock >= 1


(***************************************************************************)
(* The hand-off of frames (SpecQueue): VideoAnalyzer._capture_loop puts    *)
(* frames on frame_queue, one statement at a time, while                   *)
(* VideoAnalyzer._analysis_loop takes them.                                *)
(***************************************************************************)
CaptureFrame ==
    UNCHANGED <<backend, detector, conc, last, integrator, input_monitor>>

\* _capture_loop, lines 162-164: a frame is read
CaptureRead ==
    /\ capture_pc = "read"
    /\ frames_read < MaxFrames
    /\ frames_read' = frames_read + 1
    /\ capture_pc' = "full"
    /\ UNCHANGED <<frame_queue, last_frame>>
    /\ CaptureFrame

\* line 177: if self.frame_queue.full()
CaptureFull ==
    /\ capture_pc = "full"
    /\ capture_pc' = IF Len(frame_queue) >= frame_maxsize THEN "drop" ELSE "put"
    /\ UNCHANGED <<frame_queue, last_frame, frames_read>>
    /\ CaptureFrame

\* lines 178-181: get_nowait(), an Empty being passed over
CaptureDrop ==
    /\ capture_pc = "drop"
    /\ frame_queue' = IF frame_queue = <<>> THEN frame_queue ELSE Tail(frame_queue)
    /\ capture_pc' = "put"
    /\ UNCHANGED <<last_frame, frames_read>>
    /\ CaptureFrame

\* lines 184-187: put(frame, block=False), a Full being passed over
CapturePut ==
    /\ capture_pc = "put"
    /\ frame_queue' = IF Len(frame_queue) < frame_maxsize
                      THEN Append(frame_queue, frames_read)
                      ELSE frame_queue
    /\ capture_pc' = "read"
    /\ UNCHANGED <<last_frame, frames_read>>
    /\ CaptureFrame

\* _analysis_loop, lines 205-206: frame_queue.get(timeout=1.0) with a frame
\* there (without one it raises Empty and the loop goes round)
AnalysisGet ==
    /\ frame_queue # <<>>
    /\ last_frame' = Head(frame_queue)
    /\ frame_queue' = Tail(frame_queue)
    /\ UNCHANGED <<capture_pc, frames_read>>
    /\ CaptureFrame

NextQueue ==
    \/ CaptureRead
    \/ CaptureFull
    \/ CaptureDrop
    \/ CapturePut
    \/ AnalysisGet

SpecQueue == InitFresh /\ [][NextQueue]_vars

\* the queue never holds more than its capacity
QueueBounded == Len(frame_queue) <= frame_maxsize

\* the producer can always take its next step, up to the frames of the run
ProducerNeverBlocks ==
    \/ capture_pc = "read" /\ frames_read = MaxFrames
    \/ ENABLED (CaptureRead \/ CaptureFull \/ CaptureDrop \/ CapturePut)

\* the put of the producer leaves the new frame at the end of the queue
PutEnqueues ==
    capture_pc = "put" /\ capture_pc' = "read" =>
        frame_queue' = Append(frame_queue, frames_read)

\* the producer discards a frame only from a full queue, and then the oldest
DropsOnlyWhenFull ==
    capture_pc = "drop" /\ capture_pc' = "put" /\ frame_queue' # frame_queue =>
        Len(frame_queue) = frame_maxsize /\ frame_queue' = Tail(frame_queue)

\* C28: with one producer and a consumer interleaved in any way the queue
\* never exceeds its capacity, the producer never blocks, every new item is
\* enqueued, and an item is discarded only from a full queue, the oldest one.
C28_DropOldest ==
    /\ [](QueueBounded /\ ProducerNeverBlocks)
    /\ [][PutEnqueues /\ DropsOnlyWhenFull]_vars


(***************************************************************************)
(* Idle inputs (Spec): the observations the sync loop makes of the default *)
(* snapshots are AudioFeatures(0, 0, FALSE), which folds "neutral" with    *)
(* valence 0, and Behavior(0, 0, 0, 500), which folds "sad" with valence   *)
(* -0.4; no face is folded.                                                *)
(***************************************************************************)

\* the rolling histories hold what sync iterations on default snapshots
\* have folded, and nothing older
IdleWindow ==
    /\ Len(emotion_history) = emotion_memory
    /\ Len(valence_history) = emotion_memory
    /\ Len(arousal_history) = emotion_memory
    /\ \A i \in 1..emotion_memory :
          /\ emotion_history[i] \in {"neutral", "sad"}
          /\ i < emotion_memory => emotion_history[i + 1] # emotion_history[i]
          /\ valence_history[i] = IF emotion_history[i] = "sad" THEN -400 ELSE 0
          /\ arousal_history[i] = 0

\* the step is a read of get_analysis_results
ReadsResults == last' # last /\ last'.op = "get"

\* C29: once the rolling history holds only what default snapshots fold,
\* every read of get_analysis_results returns "neutral", with the share of
\* "neutral" in the history as confidence.
C29_IdleReadsNeutral ==
    [][ReadsResults /\ IdleWindow =>
          /\ last'.ret.emotion = "neutral"
          /\ last'.ret.confidence = Frac(Count("neutral"), emotion_memory)]_vars


(***************************************************************************)
(* Scores of an integrator whose snapshots are empty or default (SpecScore) *)
(***************************************************************************)

\* every field _integrate_data and _calculate_scores read is absent or at the
\* default the code reads for it (lines 169-182, 196-201)
AtDefaults ==
    /\ Get(video_data, "brightness", 0) = 0
    /\ Get(video_data, "motion_level", 0) = 0
    /\ Get(audio_data, "noise_level", 0) = 0
    /\ Get(input_data, "typing_speed", 0) = 0
    /\ Get(input_data, "focus_level", 500) = 500
    /\ Get(emotion_data, "valence", 0) = 0
    /\ environment_data = EmptyDict

AllEmpty ==
    /\ video_data = EmptyDict
    /\ audio_data = EmptyDict
    /\ environment_data = EmptyDict
    /\ emotion_data = EmptyDict
    /\ input_data = EmptyDict

\* C30, as stated: with all five snapshots empty or at their default fields,
\* every tick stores environment_score, productivity_score and
\* wellbeing_score 0.5 and mood_score 0.0.
C30_ScoresAtMidpoint ==
    [][\A t \in DOMAIN loops : StoresScores(t) /\ AtDefaults =>
          /\ environment_score' = 5000
          /\ productivity_score' = 5000
          /\ wellbeing_score' = 5000
          /\ mood_score' = 0]_vars

\* C30, amended: with all five snapshots empty or at their default fields,
\* every tick stores environment_score 0.4, productivity_score 0.35,
\* wellbeing_score 0.3 and mood_score 0.0, and a tick leaves no other values
\* behind; the 0.5 of the constructor lasts only until the first tick.
C30_ScoresAtDefaults ==
    /\ [][\A t \in DOMAIN loops : StoresScores(t) /\ AtDefaults =>
             /\ environment_score' = 4000
             /\ productivity_score' = 3500
             /\ wellbeing_score' = 3000
             /\ mood_score' = 0]_vars
    /\ [](AtDefaults /\ data_history # <<>> =>
             /\ environment_score = 4000
             /\ productivity_score = 3500
             /\ wellbeing_score = 3000
             /\ mood_score = 0)

C30_Witness ==
    /\ AllEmpty
    /\ loops # <<>>
    /\ Scored(1)
    /\ data_history # <<>>
    /\ environment_score = 4000
    /\ productivity_score = 3500
    /\ wellbeing_score = 3000
    /\ mood_score = 0


(***************************************************************************)
(* One thread running MoodSense._data_sync_loop (SpecIter).  The thread is *)
(* the only caller of the setters and of the three updates, so its locals  *)
(* video_data, audio_data and input_data are the snapshots it has stored   *)
(* in the integrator, and its position in the iteration is given by the    *)
(* call it completed last.                                                 *)
(***************************************************************************)
\* lines 106-121: the video, audio and environment snapshots are fetched and
\* stored; video_data['brightness'] and ['motion_level'] are present
SyncStore(video, audio, environment) ==
    /\ video_data' = video
    /\ audio_data' = audio
    /\ environment_data' = environment
    /\ last' = Call("update_environment_data", environment, NoObservation, None)
    /\ UNCHANGED <<emotion_data, input_data, backend, capture, input_monitor, detector, conc,
                   running, integrated_data, scores, data_history, result_queue,
                   saved, threads, calls, clock>>

\* lines 132-133
SyncInput(data) ==
    /\ input_data' = data
    /\ last' = Call("update_input_data", data, NoObservation, None)
    /\ UNCHANGED <<video_data, audio_data, environment_data, emotion_data, backend,
                   capture, input_monitor, detector, conc, running, integrated_data, scores,
                   data_history, result_queue, saved, threads, calls, clock>>

\* lines 136-141: the arguments of update_behavior_emotion
SyncBehavior ==
    Behavior(video_data.motion_level,
             Get(input_data, "typing_speed", 0),
             Get(input_data, "typing_errors", 0),
             Get(input_data, "focus_level", 500))

\* lines 144-157: the fused snapshot just read is stored in the integrator;
\* the read of the integrator and the dashboard update change nothing here
SyncEmotion ==
    /\ emotion_data' = last.ret
    /\ last' = Call("update_emotion_data", last.ret, NoObservation, None)
    /\ UNCHANGED <<video_data, audio_data, environment_data, input_data, backend,
                   capture, input_monitor, detector, conc, running, integrated_data, scores,
                   data_history, result_queue, saved, threads, calls, clock>>

\* variant: the behavior fold comes after the snapshot is handed over
NextIter_foldLast ==
    \/ /\ last.op \in {"init", "behavior"}
       /\ \E video \in VideoInputs, audio \in VoiceInputs, environment \in EnvironmentInputs :
             SyncStore(video, audio, environment)
    \/ /\ last.op = "update_environment_data"
       /\ \E frame \in SyncFrames(backend) : sync_face_step(video_data, frame)
    \/ last.op \in {"face", "face_skipped"} /\ update_voice_emotion(audio_data)
    \/ last.op = "voice" /\ \E data \in {EmptyDict} \cup InputInputs : SyncInput(data)
    \/ last.op = "update_emotion_data" /\ update_behavior_emotion(SyncBehavior)
    \/ last.op = "update_input_data" /\ get_analysis_results
    \/ last.op = "get" /\ SyncEmotion

\* the body of "while self.running" in _data_sync_loop, one call at a time
NextIter ==
    \/ /\ last.op \in {"init", "update_emotion_data"}
       /\ \E video \in VideoInputs, audio \in VoiceInputs, environment \in EnvironmentInputs :
             SyncStore(video, audio, environment)
    \/ /\ last.op = "update_environment_data"
       /\ \E frame \in SyncFrames(backend) : sync_face_step(video_data, frame)
    \/ last.op \in {"face", "face_skipped"} /\ update_voice_emotion(audio_data)
    \/ last.op = "voice" /\ \E data \in {EmptyDict} \cup InputInputs : SyncInput(data)
    \/ last.op = "update_input_data" /\ update_behavior_emotion(SyncBehavior)
    \/ last.op = "behavior" /\ get_analysis_results
    \/ last.op = "get" /\ SyncEmotion

SpecIter == Init /\ [][NextIter]_vars

\* the sync thread completes the named call
Completes(op) == last' # last /\ last'.op = op

\* the observation of this iteration's behavior fold
FoldedBehavior == BehaviorObservation(SyncBehavior)

\* C31: in an iteration the face step comes first (a fold only if the video
\* snapshot reports a face), then the voice fold, the behavior fold, the read
\* of the fused snapshot and update_emotion_data, in this order; the snapshot
\* handed to the integrator is the one read from the histories that hold this
\* iteration's folds, and carries this iteration's voice and behavior labels.
C31_SyncOrder ==
    [][/\ Completes("face") => last.op = "update_environment_data" /\ video_data.face_detected
       /\ Completes("face_skipped") => ~Get(video_data, "face_detected", FALSE)
       /\ Completes("voice") => last.op \in {"face", "face_skipped"}
       /\ Completes("behavior") => last.op = "update_input_data"
       /\ Completes("get") => last.op = "behavior"
       /\ Completes("update_emotion_data") =>
             /\ last.op = "get"
             /\ emotion_data' = AnalysisResults
             /\ emotion_data'.voice_emotion = VoiceObservation(audio_data).emotion
             /\ emotion_data'.behavior_emotion = FoldedBehavior.emotion
             /\ emotion_history # <<>>
             /\ emotion_history[Len(emotion_history)] = FoldedBehavior.emotion
             /\ valence_history[Len(valence_history)] = FoldedBehavior.valence]_vars

\* a second iteration hands over a snapshot that counts its face, voice and
\* behavior folds
C31_Witness ==
    /\ last.op = "update_emotion_data"
    /\ Len(emotion_history) = emotion_memory
    /\ video_data.face_detected
    /\ emotion_data = AnalysisResults
    /\ emotion_data.face_emotion = "happy"
    /\ emotion_data.behavior_emotion = FoldedBehavior.emotion
    /\ emotion_history[emotion_memory - 2] = "happy"


(***************************************************************************)
(* The last raw label of each source (Spec)                                *)
(***************************************************************************)
\* the three last-raw labels as the object holds them
RawLabels == <<face_emotion, voice_emotion, behavior_emotion>>

\* the index in RawLabels of the source an update belongs to
RawIndex(op) == CASE op = "face" -> 1 [] op = "voice" -> 2 [] op = "behavior" -> 3

\* C32: the three last-raw labels are "neutral" on a fresh detector; an
\* update that returns a label makes it the last-raw label of its own source,
\* folded or not, and leaves the other two alone; an update that fails and a
\* read change none; a read returns the three as they are.
C32_LastRawLabels ==
    /\ (last.op = "init" => RawLabels = <<"neutral", "neutral", "neutral">>)
    /\ [][/\ last'.op \in FoldOps /\ last'.ret # None =>
                 /\ RawLabels'[RawIndex(last'.op)] = last'.ret
                 /\ \A i \in {1, 2, 3} \ {RawIndex(last'.op)} : RawLabels'[i] = RawLabels[i]
          /\ last'.op \in FoldOps /\ last'.ret = None => RawLabels' = RawLabels
          /\ last'.op = "get" =>
                 /\ RawLabels' = RawLabels
                 /\ <<last'.ret.face_emotion, last'.ret.voice_emotion,
                      last'.ret.behavior_emotion>> = RawLabels]_vars

\* a read after a face update that was not folded and a failed one: the
\* snapshot carries the label of the first over an empty history
C32_Witness ==
    /\ last.op = "get"
    /\ emotion_history = <<>>
    /\ last.ret.face_emotion = "sad"
    /\ last.ret.voice_emotion = "neutral"
    /\ last.ret.behavior_emotion = "neutral"


(***************************************************************************)
(* The arousal of a behavior observation (SpecBehavior)                    *)
(***************************************************************************)
\* half the motion level of a behavior update's arguments, in thousandths
HalfMotion(b) == (b.motion_level * 5) \div 10

\* C33: whichever row of the behavior rule table matches, the arousal of the
\* observation is motion_level * 0.5, and that is the sample appended to the
\* arousal history.
C33_ArousalIsHalfMotion ==
    last.op = "behavior" =>
        /\ last.obs.arousal = HalfMotion(last.arg)
        /\ 2 * last.obs.arousal = last.arg.motion_level
        /\ arousal_history = <<HalfMotion(last.arg)>>

\* the row of strong motion, fast typing and many errors has matched
C33_Witness ==
    /\ last.op = "behavior"
    /\ last.arg = Behavior(1000, 350, 500, 900)
    /\ last.ret = "angry"
    /\ arousal_history = <<500>>


(***************************************************************************)
(* The weight floor on voice and behavior observations (SpecIter)          *)
(***************************************************************************)
\* the observation passes the weight floor of _integrate_emotions
Passes(obs) == ~BelowFloor(SourceWeight(obs.source, obs.confidence))

\* C34: on every point of the voice grid, speaking or not, and of the
\* behavior grid the source weight is at least 0.1; every voice update and
\* every behavior update of the sync thread appends one entry to each rolling
\* history, so that the histories end with the voice and the behavior sample
\* of the iteration when it hands its snapshot over.
C34_FloorSparesVoiceAndBehavior ==
    /\ \A audio_features \in VoiceGrid : Passes(VoiceObservation(audio_features))
    /\ \A b \in BehaviorGrid : Passes(BehaviorObservation(b))
    /\ [][/\ Completes("voice") \/ Completes("behavior") =>
                 /\ last'.ret # None
                 /\ Passes(last'.obs)
                 /\ AllAppended(last'.obs)
          /\ Completes("update_emotion_data") =>
                 /\ Len(emotion_history) >= 2
                 /\ emotion_history[Len(emotion_history) - 1] = VoiceObservation(audio_data).emotion
                 /\ valence_history[Len(valence_history) - 1] = VoiceObservation(audio_data).valence
                 /\ emotion_history[Len(emotion_history)] = FoldedBehavior.emotion
                 /\ arousal_history[Len(arousal_history)] = FoldedBehavior.arousal]_vars

\* an iteration without a face and without speech has folded two observations
C34_Witness ==
    /\ last.op = "update_emotion_data"
    /\ ~video_data.face_detected
    /\ audio_data = AudioFeatures(0, 0, FALSE)
    /\ input_data = EmptyDict
    /\ emotion_history = <<"neutral", "sad">>
    /\ emotion_data.emotion_distribution = AsMapping(CountItems(emotion_history, <<>>))


(***************************************************************************)
(* Ranges and means of the fused snapshot (Spec)                           *)
(***************************************************************************)
\* the sum over the window of sample - mean, times the mean's denominator
RECURSIVE Deviation(_, _)
Deviation(history, mean) ==
    IF history = <<>> THEN 0
    ELSE Head(history) * mean.den - mean.num + Deviation(Tail(history), mean)

\* the fraction lies between low and high
Within(frac, low, high) == low * frac.den <= frac.num /\ frac.num <= high * frac.den

\* C35: every sample in the window has valence in [-1, 1] and arousal in
\* [0, 1]; a read returns valence in [-1, 1], arousal in [0, 1] and
\* intensity = |valence| * arousal in [0, 1], where valence and arousal are
\* the unweighted means of the samples in the window.
C35_RangesAndMeans ==
    /\ \A i \in 1..Len(valence_history) : valence_history[i] \in -1000..1000
    /\ \A i \in 1..Len(arousal_history) : arousal_history[i] \in 0..1000
    /\ last.op = "get" =>
          LET r == last.ret
          IN  /\ Within(r.valence, -1000, 1000)
              /\ Within(r.arousal, 0, 1000)
              /\ Within(r.intensity, 0, 1000000)
              /\ r.intensity.num * r.valence.den * r.arousal.den =
                    Abs(r.valence.num) * r.arousal.num * r.intensity.den
              /\ Deviation(valence_history, r.valence) = 0
              /\ Deviation(arousal_history, r.arousal) = 0

\* a read of a full window whose mean valence is negative and whose
\* intensity is positive
C35_Witness ==
    /\ last.op = "get"
    /\ Len(valence_history) = emotion_memory
    /\ last.ret.valence.num < 0
    /\ last.ret.valence.den > 1
    /\ last.ret.intensity.num > 0
    /\ valence_history[1] # valence_history[2]


(***************************************************************************)
(* One tick against the setters (SpecInt)                                  *)
(***************************************************************************)
\* loop t completes _append_to_history
AppendsRow(t) == Moves(t, "append", "publish")

\* C36: whatever setters run during a tick, the productivity_score the tick
\* stores and the row it appends are computed from the input snapshot the
\* tick merged: the score from the hoisted typing_speed and focus_level of
\* integrated_data, and the row's typing_speed and focus_level are those
\* hoisted values.
C36_TickConsistent ==
    [][\A t \in DOMAIN loops :
          /\ StoresScores(t) =>
                productivity_score' =
                   ProductivityScore(integrated_data.focus_level, integrated_data.typing_speed)
          /\ AppendsRow(t) =>
                LET row == data_history'[Len(data_history')]
                IN  /\ row.typing_speed = integrated_data.typing_speed
                    /\ row.focus_level = integrated_data.focus_level]_vars


\* C37: whatever setters run during a merge, each hoisted field of the
\* snapshot it produces agrees with the nested snapshot of the same result:
\* brightness with video.brightness (0.0 if absent), noise_level with
\* audio.noise_level (0.0), typing_speed with input.typing_speed (0.0) and
\* focus_level with input.focus_level (0.5).
C37_HoistedAgreeWithNested ==
    [][\A t \in DOMAIN loops : Merges(t) =>
          LET merged == integrated_data'
          IN  /\ merged.brightness = Get(merged.video, "brightness", 0)
              /\ merged.noise_level = Get(merged.audio, "noise_level", 0)
              /\ merged.typing_speed = Get(merged.input, "typing_speed", 0)
              /\ merged.focus_level = Get(merged.input, "focus_level", 500)]_vars


(***************************************************************************)
(* After stop() has returned (SpecHalt)                                    *)
(***************************************************************************)
\* the one start() has been followed by a stop() that has returned
Stopped == calls.start > 0 /\ ~running /\ callers["main"] = "idle"

\* C38: once stop() has returned, data_history and integrated_data are not
\* modified again, and the rows written by the save of stop(), unless it
\* failed, are the rows held in memory.
C38_QuietAfterStop ==
    /\ [][Stopped => UNCHANGED <<data_history, integrated_data>>]_vars
    /\ [](Stopped /\ ~saved.failed => saved.rows = data_history)


(***************************************************************************)
(* The input monitor (src/src/input_monitor.py, SpecMonitor): the keyboard *)
(* listener records keystrokes while the analysis thread runs its loop.    *)
(* Times are in units of 30 seconds, so that the typing window is 2 and    *)
(* an idle time of one unit is the 30 seconds after which the idle term    *)
(* is 0; the mouse is not moved.  typing_speed is in characters per        *)
(* minute; focus_level is in thousandths, rounded down.                    *)
(***************************************************************************)
\* _calculate_typing_speed: what it returns, a tuple of three or a float
CalculateTypingSpeed(m) ==
    LET recent_times == SelectSeq(m.keystroke_times, LAMBDA t : m.now - t <= typing_window)
        taken == Min(Len(recent_times), Len(m.keystroke_chars))
        recent_chars == SubSeq(m.keystroke_chars, Len(m.keystroke_chars) - taken + 1,
                               Len(m.keystroke_chars))
        char_count == Cardinality({i \in DOMAIN recent_chars : recent_chars[i] = "a"})
        backspace_count ==
            Cardinality({i \in DOMAIN recent_chars : recent_chars[i] = "[BACKSPACE]"})
        time_span == IF Len(recent_times) > 1
                     THEN recent_times[Len(recent_times)] - recent_times[1]
                     ELSE typing_window
        typing_speed == IF time_span > 0 THEN (2 * char_count) \div time_span ELSE 0
        backspace_rate == IF char_count + backspace_count > 0
                          THEN Frac(backspace_count, char_count + backspace_count)
                          ELSE Frac(0, 1)
    IN  IF Len(m.keystroke_times) < 2
        THEN [kind |-> "tuple", typing_speed |-> 0, typing_errors |-> Frac(0, 1),
              backspace_rate |-> Frac(0, 1)]
        ELSE IF recent_times = <<>>
        THEN [kind |-> "float", value |-> 0]
        ELSE [kind |-> "tuple", typing_speed |-> typing_speed,
              typing_errors |-> backspace_rate, backspace_rate |-> backspace_rate]

\* _calculate_focus_level: the smoothed focus, the mouse activity being 0
FocusLevel(focus_level, typing_speed, idle_time) ==
    LET norm_typing == Min(1000, (typing_speed * 1000) \div 300)
        norm_idle == IF idle_time > 1 THEN 0 ELSE 1000 - idle_time * 1000
        focus == (5 * norm_idle + 3 * norm_typing) \div 10
    IN  (7 * focus_level + 3 * focus) \div 10

\* _on_key_press: a character key or the backspace key
OnKeyPress(char) ==
    /\ Len(input_monitor.keystroke_times) < MaxKeys
    /\ input_monitor' =
          [input_monitor EXCEPT
              !.last_activity_time = input_monitor.now,
              !.keystroke_times = Append(@, input_monitor.now),
              !.keystroke_chars = Append(@, char)]
    /\ UNCHANGED <<backend, detector, conc, last, integrator, capture>>

\* time.time() advances
TimePasses ==
    /\ input_monitor.now < MaxTime
    /\ input_monitor' = [input_monitor EXCEPT !.now = @ + 1]
    /\ UNCHANGED <<backend, detector, conc, last, integrator, capture>>

\* one iteration of _analysis_loop: the unpacking of line 368 raises a
\* TypeError on a float, before anything is assigned, and the handler of
\* lines 408-411 takes over; raised tells how the last iteration ended
InputAnalysis ==
    /\ LET typing_results == CalculateTypingSpeed(input_monitor)
       IN  IF typing_results.kind # "tuple"
           THEN input_monitor' = [input_monitor EXCEPT !.raised = TRUE]
           ELSE input_monitor' =
                   [input_monitor EXCEPT
                       !.typing_speed = typing_results.typing_speed,
                       !.typing_errors = typing_results.typing_errors,
                       !.backspace_rate = typing_results.backspace_rate,
                       !.focus_level =
                           FocusLevel(@, typing_results.typing_speed,
                                      input_monitor.now - input_monitor.last_activity_time),
                       !.raised = FALSE]
    /\ UNCHANGED <<backend, detector, conc, last, integrator, capture>>

NextMonitor ==
    \/ \E char \in {"a", "[BACKSPACE]"} : OnKeyPress(char)
    \/ TimePasses
    \/ InputAnalysis

SpecMonitor == InitFresh /\ [][NextMonitor]_vars

\* the step is an iteration of the analysis loop
Analyses ==
    /\ input_monitor'.now = input_monitor.now
    /\ input_monitor'.keystroke_times = input_monitor.keystroke_times

\* keystrokes were recorded and none falls inside the typing window
NoRecentKeys ==
    /\ input_monitor.keystroke_times # <<>>
    /\ \A i \in DOMAIN input_monitor.keystroke_times :
          input_monitor.now - input_monitor.keystroke_times[i] > typing_window

\* C39: for every keystroke history _calculate_typing_speed returns a tuple
\* of three; no iteration of the analysis loop raises; an iteration with
\* keystrokes recorded and none inside the typing window publishes
\* typing_speed 0 and updates focus_level.
C39_TypingSpeedTriple ==
    /\ [](CalculateTypingSpeed(input_monitor).kind = "tuple")
    /\ [][Analyses =>
             /\ ~input_monitor'.raised
             /\ NoRecentKeys =>
                   /\ input_monitor'.typing_speed = 0
                   /\ input_monitor'.focus_level =
                         FocusLevel(input_monitor.focus_level, 0,
                                    input_monitor.now - input_monitor.last_activity_time)]_vars

====
